---- MODULE Spec2Model ----
(***************************************************************************)
(* A model of the DeltaScript compiler's semantic pass (transpileSpark in    *)
(* src/src/transpiler.ts).  The pass walks the original source line by line;  *)
(* every line is classified by regular expressions and handled inside its    *)
(* own try/catch.  A source line is modelled by its shape (the class of text *)
(* the regular expressions distinguish), the file by the sequence of lines   *)
(* read so far, and one step of the model is one iteration of the loop.      *)
(***************************************************************************)
EXTENDS Integers, Sequences, FiniteSets, TLC

VARIABLES
  src,               \* origLines[0..idx-1]: the lines processed so far
  pc,                \* "lines" while the loop runs, "done" after the result is returned
  scopeStack,        \* ScopeManager.scopeStack (currentScope is its last element)
  scopeTypeStack,    \* scopeTypeStack
  funcContextStack,  \* funcContextStack
  inFunction,        \* inFunction
  pendingOpenScope,  \* pendingOpenScope
  calledViaCall,     \* calledViaCall: function name -> line of its `call` (0: absent)
  diagnostics,       \* diagnostics
  thrown,            \* the CompileError thrown out of transpileSpark, if any
  textStack,         \* ghost: the blocks textually open after the last line
  sourceCode,        \* sourceCode, line by line, in the model of the phases
  cleanedForParse,   \* cleanedForParseLines
  parsedToSourceMap, \* parsedToSourceMap
  outLines,          \* outLines, each with its entry of outLineToSourceLine
  returned,          \* the value transpileSpark returned, NoResult before
  fileImports,       \* the import statements of the .ds files read so far
  seen,              \* resolveDsDependencyGraph: seen
  order,             \* resolveDsDependencyGraph: order; runSingleFile: graph
  visitStack,        \* the running calls of visit, innermost last
  cliPc,             \* the position of the command-line process
  graphLoc,          \* where each file lies relative to the entry's directory
  tempDir,           \* "none", "exists" or "removed"
  written,           \* the paths runSingleFile has written
  compiled,          \* files of graph compiled so far
  child,             \* the spawned process: "none", "running", "signalled",
                     \* "exited", "failed" (it could not be started)
  exiting,           \* exiting
  sigListeners,      \* signals with a listener registered by process.once
  exitCode,          \* "none" while the process runs, else its exit code
  buildFiles,        \* build: what transpileSpark did for each file attempted
  nFiles,            \* build: files.length
  compiledFiles,     \* build: compiled, as indices into files
  failed,            \* build: failed
  outputs,           \* build: the indices of the files whose output was written
  processExitCode,   \* build: process.exitCode
  buildPc,           \* build: "idle", "loop" or "done"
  now,               \* dev: the time, in ticks of TickMs
  pendingTimers,     \* dev: the timeouts set and neither fired nor cleared
  timers,            \* dev: timers, path -> its timeout (NoTimeout: no entry)
  eventLog,          \* dev: per file name, the times of the events delivered
  recompileLog,      \* dev: per path, the timeouts that ran and their prints
  configFile,        \* dsk.config.ds in the project directory
  srcDir,            \* TRUE when the directory src/ exists
  cfgLog,            \* the runs of init and the calls of loadConfig so far
  lspPc,             \* language server: "idle", "started" or "initialized"
  documents,         \* language server: documents, in the order of documents.all()
  transpile,         \* language server: TRUE when `transpile` holds the module
  waiting,           \* language server: handlers suspended in ensureTranspilerLoaded
  published,         \* language server: uri -> the text of the diagnostics last sent
  symbolIndex,       \* language server: uri -> the text its entry was built from
  wsQuery,           \* language server: params.query of the last workspace/symbol
  wsResult,          \* language server: the result returned for it
  wsSeq              \* language server: flips at each workspace/symbol request

\* The state of the loop over the lines.
loopVars == << src, scopeStack, scopeTypeStack, funcContextStack, inFunction,
               pendingOpenScope, calledViaCall, thrown, textStack >>

\* The state of the phases around the loop.
phaseVars == << sourceCode, cleanedForParse, parsedToSourceMap, outLines, returned >>

\* The state of the command-line interface (src/unnamed/part_002).
cliVars == << fileImports, seen, order, visitStack, cliPc, graphLoc, tempDir,
              written, compiled, child, exiting, sigListeners, exitCode >>

\* The state of `dsc build` (src/unnamed/part_002, 468-579).
buildVars == << buildFiles, nFiles, compiledFiles, failed, outputs,
                processExitCode, buildPc >>

\* The state of `dsc dev` (src/unnamed/part_002, 615-636).
watchVars == << now, pendingTimers, timers, eventLog, recompileLog >>

\* The state of the commands and servers around the compiler.
\* The configuration file and the commands that touch it.
cfgVars == << configFile, srcDir, cfgLog >>

\* The state of the language server (src/unnamed/part_000).
lspVars == << lspPc, documents, transpile, waiting, published, symbolIndex,
              wsQuery, wsResult, wsSeq >>

toolVars == << buildVars, watchVars, cfgVars, lspVars >>

vars == << src, pc, scopeStack, scopeTypeStack, funcContextStack, inFunction,
           pendingOpenScope, calledViaCall, diagnostics, thrown, textStack,
           sourceCode, cleanedForParse, parsedToSourceMap, outLines, returned,
           fileImports, seen, order, visitStack, cliPc, graphLoc, tempDir,
           written, compiled, child, exiting, sigListeners, exitCode,
           toolVars >>

(***************************************************************************)
(* Bounds of the model.                                                    *)
(***************************************************************************)
MaxLines == 4

(***************************************************************************)
(* Names and types.                                                        *)
(***************************************************************************)
null == "null"

VarNames == {"x", "a", "b"}

FuncNames == {"Sum", "Label", "Log"}

\* The pre-scan table: func Sum(a::num, b::num)::num, func Label()::str,
\* func Log(m::str) (no return type).
funcs ==
  [f \in FuncNames |->
     CASE f = "Sum"   -> [params |-> << [name |-> "a", type |-> "num"],
                                        [name |-> "b", type |-> "num"] >>,
                          returnType |-> "num"]
       [] f = "Label" -> [params |-> << >>, returnType |-> "str"]
       [] f = "Log"   -> [params |-> << [name |-> "m", type |-> "str"] >>,
                          returnType |-> null]]

\* The interfaces extracted before the pass:
\*   interface Person { name::str; age::num; nick?::str; }
\*   interface Opts   { tag?::str; level?::num; }
InterfaceNames == {"Person", "Opts"}

interfaces ==
  [i \in InterfaceNames |->
     IF i = "Person"
       THEN [fields |-> [k \in {"name", "age", "nick"} |->
                           IF k = "age" THEN "num" ELSE "str"],
             optionalFields |-> {"nick"},
             requiredKeys |-> {"name", "age"}]
       ELSE [fields |-> [k \in {"tag", "level"} |->
                           IF k = "level" THEN "num" ELSE "str"],
             optionalFields |-> {"tag", "level"},
             requiredKeys |-> {}]]

\* The aliases the scan of the whole source finds before the pass:
\*   type Count = num;   type Title = str;
TypeAliasNames == {"Count", "Title"}

typeAliases == [a \in TypeAliasNames |-> IF a = "Count" THEN "num" ELSE "str"]

(***************************************************************************)
(* Expressions, by shape.                                                  *)
(*   numlit  1          strlit  "x"        boollit true                    *)
(*   ident   x          arith   a+b, 1+2  (num operands joined by +)       *)
(*   objlit  { k: v, ... }  with props the supplied keys and their values  *)
(*   arrlit  [ e1, ..., en ]  with props the sequence of its elements      *)
(***************************************************************************)
NoProps == [k \in {} |-> null]

Expr(form, name, props) == [form |-> form, name |-> name, props |-> props]

NumLit == Expr("numlit", "", NoProps)
StrLit == Expr("strlit", "", NoProps)
BoolLit == Expr("boollit", "", NoProps)
Ident(v) == Expr("ident", v, NoProps)
Arith == Expr("arith", "", NoProps)
ObjLit(props) == Expr("objlit", "", props)
ArrLit(elems) == Expr("arrlit", "", elems)
NoExpr == Expr("none", "", NoProps)

(***************************************************************************)
(* Lines, by shape.                                                        *)
(*   funcOpen      func f(ps)::T {                                         *)
(*   funcReturn1   func f(ps)::T { return e }                              *)
(*   funcLet1      func f(ps)::T { let v = 1 }                             *)
(*   close         }                                                       *)
(*   closeElse     } else {                                                *)
(*   ifOpen        if (c) {      c an identifier (name) or a comparison    *)
(*   ctrlOpen      if (g(c)) {   a control header whose parenthesis holds  *)
(*                 a ")", or none: the method-header pattern misses it     *)
(*   ifReturn1     if (c) { return e }                                     *)
(*   ifReturnBare  if (c) return e                                         *)
(*   return        return e                                                *)
(*   let, const    let x::T = e        (ty = null: no annotation)          *)
(*   mut           mut x = e                                               *)
(*   inmut         inmut x                                                 *)
(*   inmutAssign   inmut x = e                                             *)
(*   assign        x = e                                                   *)
(*   call          call f(args)                                            *)
(*   callNested    call f(g(e))   an argument that holds a ")"             *)
(*   plainCall     f(args)   or   f(args);   (semi)                        *)
(*   typeAlias     type A = T;                                             *)
(***************************************************************************)
Line(k, name, ty, e, args, semi) ==
  [k |-> k, name |-> name, ty |-> ty, e |-> e, args |-> args, semi |-> semi]

FuncOpen(f) == Line("funcOpen", f, null, NoExpr, << >>, FALSE)
FuncReturn1(f, e) == Line("funcReturn1", f, null, e, << >>, FALSE)
FuncLet1(f) == Line("funcLet1", f, null, NoExpr, << >>, FALSE)
Close == Line("close", "", null, NoExpr, << >>, FALSE)
CloseElse == Line("closeElse", "", null, NoExpr, << >>, FALSE)
IfOpen(c) == Line("ifOpen", c, null, NoExpr, << >>, FALSE)
CtrlOpen == Line("ctrlOpen", "", null, NoExpr, << >>, FALSE)
IfReturn1(e) == Line("ifReturn1", "", null, e, << >>, FALSE)
IfReturnBare(e) == Line("ifReturnBare", "", null, e, << >>, FALSE)
Return(e) == Line("return", "", null, e, << >>, FALSE)
Decl(kind, x, ty, e, semi) == Line(kind, x, ty, e, << >>, semi)
Mut(x, e) == Line("mut", x, null, e, << >>, FALSE)
Inmut(x) == Line("inmut", x, null, NoExpr, << >>, FALSE)
InmutAssign(x, e) == Line("inmutAssign", x, null, e, << >>, FALSE)
Assign(x, e) == Line("assign", x, null, e, << >>, FALSE)
Call(f, args) == Line("call", f, null, NoExpr, args, FALSE)
CallNested(f) == Line("callNested", f, null, NoExpr, << >>, FALSE)
PlainCall(f, args, semi) == Line("plainCall", f, null, NoExpr, args, semi)
TypeAlias(a) == Line("typeAlias", a, typeAliases[a], NoExpr, << >>, TRUE)

(***************************************************************************)
(* Scopes and bindings.                                                    *)
(***************************************************************************)
NoVar == [declaredKind |-> "none", declaredType |-> null, mutable |-> FALSE,
          inmutedAtLine |-> 0, declaredLine |-> 0, implicit |-> FALSE]

VarInfo(kind, ty, mutable, line, implicit) ==
  [declaredKind |-> kind, declaredType |-> ty, mutable |-> mutable,
   inmutedAtLine |-> 0, declaredLine |-> line, implicit |-> implicit]

createScope(type) == [type |-> type, variables |-> [v \in VarNames |-> NoVar]]

Top(s) == s[Len(s)]
Pop(s) == SubSeq(s, 1, Len(s) - 1)

\* Index in the scope stack of the scope findVariable stops at (0: not found).
RECURSIVE FindFrom(_, _, _)
FindFrom(stack, name, i) ==
  IF i = 0 THEN 0
  ELSE IF stack[i].variables[name] # NoVar THEN i
  ELSE FindFrom(stack, name, i - 1)

findIndex(stack, name) ==
  IF name \in VarNames THEN FindFrom(stack, name, Len(stack)) ELSE 0

findVariable(stack, name) ==
  IF findIndex(stack, name) = 0 THEN NoVar
  ELSE stack[findIndex(stack, name)].variables[name]

\* A lookup that also searches the ancestor scopes.
hasInAnyScope(stack, name) == findIndex(stack, name) # 0

hasInCurrentScope(stack, name) ==
  name \in VarNames /\ Top(stack).variables[name] # NoVar

addVariable(stack, name, info) ==
  IF name \in VarNames
    THEN [stack EXCEPT ![Len(stack)].variables[name] = info]
    ELSE stack

\* In-place mutation of the VarInfo object findVariable returned.
updateVariable(stack, name, info) ==
  IF findIndex(stack, name) = 0 THEN stack
  ELSE [stack EXCEPT ![findIndex(stack, name)].variables[name] = info]

(***************************************************************************)
(* Type inference and compatibility.                                       *)
(***************************************************************************)
\* /\+/.test(s)  and  /["'`]/.test(s)  on the text of the expression.
RECURSIVE HasPlus(_)
HasPlus(e) ==
  \/ e.form = "arith"
  \/ \E k \in DOMAIN e.props : HasPlus(e.props[k])

RECURSIVE HasQuote(_)
HasQuote(e) ==
  \/ e.form = "strlit"
  \/ \E k \in DOMAIN e.props : HasQuote(e.props[k])

\* inferTypeFromExpr: literal shapes first, then a text holding both a + and
\* a quote is a str, then { starts an obj, a bare identifier last; a
\* quote-free a+b is none of the shapes and yields null.
inferTypeFromExpr(e, stack) ==
  CASE e.form = "strlit"  -> "str"
    [] e.form = "numlit"  -> "num"
    [] e.form = "boollit" -> "mbool"
    [] e.form = "objlit"  -> IF HasPlus(e) /\ HasQuote(e) THEN "str" ELSE "obj"
    [] e.form = "arrlit"  -> IF HasPlus(e) /\ HasQuote(e) THEN "str" ELSE "arr"
    [] e.form = "ident"   -> findVariable(stack, e.name).declaredType
    [] OTHER              -> null

\* analyzeExprType: literals and identifiers as inferTypeFromExpr; for a
\* top-level + only a str operand or a quote makes the result str, and the
\* operands of the modelled a+b are the num parameters a and b.
analyzeExprType(e, stack) ==
  IF e.form = "arith" THEN null ELSE inferTypeFromExpr(e, stack)

\* The type names a declaration or an inference can produce here.
TypeNames == {"str", "num", "mbool", "arr", "obj"} \cup InterfaceNames

\* `arr<${type}>`
ArrOf(t) == "arr<" \o t \o ">"

\* extractArrayType: arr<T> has base arr and inner T, any other type is its
\* own base with no inner type.
extractArrayType(t) ==
  IF \E u \in TypeNames : t = ArrOf(u)
    THEN [baseType |-> "arr", innerType |-> CHOOSE u \in TypeNames : t = ArrOf(u)]
    ELSE [baseType |-> t, innerType |-> null]

\* inferArrayElementTypes: the elements one by one; a quoted string, a
\* number, true/false/maybe, an identifier's declared type, { and [ by their
\* first character, null for anything else (1+2 included).
inferElementType(e, stack) ==
  CASE e.form = "strlit"  -> "str"
    [] e.form = "numlit"  -> "num"
    [] e.form = "boollit" -> "mbool"
    [] e.form = "ident"   -> findVariable(stack, e.name).declaredType
    [] e.form = "objlit"  -> "obj"
    [] e.form = "arrlit"  -> "arr"
    [] OTHER              -> null

inferArrayElementTypes(e, stack) ==
  [i \in DOMAIN e.props |-> inferElementType(e.props[i], stack)]

\* allElementsSameType: the elements of unknown type are left out; the type
\* is null for an empty list and when two known types differ.
allElementsSameType(elementTypes) ==
  LET knownTypes == {elementTypes[i] : i \in DOMAIN elementTypes} \ {null}
  IN [allSame |-> Cardinality(knownTypes) <= 1,
      type |-> IF Cardinality(knownTypes) = 1
                 THEN CHOOSE t \in knownTypes : TRUE
                 ELSE null]

\* The right-hand type of a declaration whose expression starts with [ .
arrayRhsType(e, stack) ==
  LET same == allElementsSameType(inferArrayElementTypes(e, stack))
  IN IF same.allSame /\ same.type # null THEN ArrOf(same.type) ELSE "arr"

IsPrimitive(t) == t \in {"arr", "obj", "str", "num", "mbool"}

\* resolveAlias: one level, the alias's right-hand side in place of its name.
resolveAlias(n) == IF n \in DOMAIN typeAliases THEN typeAliases[n] ELSE n

\* matchesSimple for a declared type without union: after one level of alias
\* a primitive matches only itself, any other name also accepts obj and
\* unknown.
CheckOneLoose(t, inferred) == inferred \in {t, "obj", null}
checkOne(opt, inferred) ==
  LET t == resolveAlias(opt)
  IN IF IsPrimitive(t) THEN inferred = t ELSE CheckOneLoose(t, inferred)

\* The string-concatenation override of matchesSimple (a + and a quote in
\* the text) is already the answer of inferTypeFromExpr for every shape.
matchesSimple(expected, inferred) == checkOne(expected, inferred)

\* objectLiteralHasKeys: every key is the name of a supplied property.
objectLiteralHasKeys(obj, keys) == keys \subseteq DOMAIN obj.props

\* validateObjectFieldTypes: TRUE when it throws, i.e. some supplied property
\* that the interface declares has a value not matching the field's type.
validateObjectFieldTypesThrows(obj, iface, stack) ==
  \E k \in DOMAIN obj.props :
     /\ k \in DOMAIN iface.fields
     /\ ~matchesSimple(iface.fields[k],
                       inferTypeFromExpr(obj.props[k], stack))

(***************************************************************************)
(* Diagnostics.                                                            *)
(***************************************************************************)
Diag(line, kind, name, cite) ==
  [line |-> line, kind |-> kind, name |-> name, cite |-> cite]

NoErr == Diag(0, "none", "", 0)

\* What the message of a type diagnostic of a declaration names:
\*   arrInner    cannot assign arr<U> to arr<T> 'v'
\*   mixedArray  cannot assign mixed array to typed array arr<T> 'v'
\*   arrElement  array element type U does not match array type arr<T>
\*   typeError   cannot assign R to D 'v'
messageNames(kind) ==
  CASE kind \in {"arrInner", "arrElement", "typeError"} -> {"inferred", "declared"}
    [] kind = "mixedArray"                              -> {"declared"}
    [] OTHER                                            -> {}

(***************************************************************************)
(* The regular expressions that classify a line.                           *)
(***************************************************************************)
funcHeaderWithBrace(l) == l.k \in {"funcOpen", "funcReturn1", "funcLet1"}

\* ^\s*(...)?(constructor|identifier)\s*\([^)]*\)\s*(::...)?\s*\{  also
\* matches a control header whose parenthesis holds no ")": if (c) {
classMethodWithBrace(l) == l.k \in {"ifOpen", "ifReturn1"}

controlHeaderWithBrace(l) == l.k \in {"ifOpen", "ifReturn1", "ctrlOpen"}

\* ^\s*(...)?(constructor|identifier)\s*\([^)]*\)\s*(::...)?\s*$  matches a
\* call statement written without a semicolon: f(args)
classMethodNoBrace(l) == l.k = "plainCall" /\ ~l.semi

closeMatch(l) == l.k \in {"close", "closeElse"}

\* (^|[;{])\s*return\b
returnDetected(l) == l.k \in {"return", "funcReturn1", "ifReturn1"}

(***************************************************************************)
(* One iteration of the loop, as a pipeline over the record of the mutable *)
(* state; err is the CompileError the iteration's catch block receives.    *)
(***************************************************************************)
Cur ==
  [ss |-> scopeStack, sts |-> scopeTypeStack, fcs |-> funcContextStack,
   inF |-> inFunction, pend |-> pendingOpenScope, cvc |-> calledViaCall,
   err |-> NoErr]

Ctx(name, expected, startLine, headerLine) ==
  [name |-> name, expected |-> expected, hasValueReturn |-> FALSE,
   sawReturnAttempt |-> FALSE, startLine |-> startLine,
   headerLine |-> headerLine]

enterScope(s, type) ==
  [s EXCEPT !.ss = Append(@, createScope(type)), !.sts = Append(@, type)]

\* Lines 1104-1129 and 1132-1148: open the scope of a header whose brace is
\* on the same line; note a pending open for a header without brace.
OpenScopes(s, l, n) ==
  LET opened ==
        IF funcHeaderWithBrace(l)
          THEN [enterScope(s, "function") EXCEPT
                  !.inF = TRUE,
                  !.fcs = Append(@, Ctx(l.name, funcs[l.name].returnType, n, n))]
        ELSE IF classMethodWithBrace(l)
          THEN [enterScope(s, "function") EXCEPT
                  !.inF = TRUE,
                  !.fcs = Append(@, Ctx("if", null, n, 0))]
        ELSE IF controlHeaderWithBrace(l)
          THEN enterScope(s, "block")
        ELSE s
  IN IF classMethodNoBrace(l) THEN [opened EXCEPT !.pend = "function"]
     ELSE opened

MissingReturn(ctx) == ctx.expected \notin {null, "void"} /\ ~ctx.sawReturnAttempt

\* Lines 1172-1195: a line starting with } pops one scope; popping a function
\* scope pops its context and reports a missing return at the header line.
CloseScopes(s, l, n) ==
  IF ~closeMatch(l) \/ s.sts = << >> THEN s
  ELSE LET lastScope == Top(s.sts)
           popped == [s EXCEPT !.sts = Pop(@), !.ss = Pop(@)]
       IN IF lastScope # "function" THEN popped
          ELSE IF s.fcs = << >> THEN [popped EXCEPT !.inF = FALSE]
          ELSE LET ctx == Top(s.fcs)
               IN [popped EXCEPT
                     !.inF = FALSE,
                     !.fcs = Pop(@),
                     !.err = IF MissingReturn(ctx)
                               THEN Diag(IF ctx.headerLine # 0 THEN ctx.headerLine ELSE n,
                                         "missingReturn", ctx.name, 0)
                               ELSE NoErr]

\* Lines 1258-1318: a detected return is checked against the context on top
\* of the function-context stack, when that context declares a type.
ReturnMismatch(expected, e, stack) ==
  IF expected \in InterfaceNames /\ e.form = "objlit"
    THEN \/ ~objectLiteralHasKeys(e, interfaces[expected].requiredKeys)
         \/ validateObjectFieldTypesThrows(e, interfaces[expected], stack)
    ELSE ~matchesSimple(expected, inferTypeFromExpr(e, stack))

ReturnCheck(s, l, n) ==
  IF s.err # NoErr \/ ~returnDetected(l) \/ s.fcs = << >> THEN s
  ELSE LET ctx == Top(s.fcs)
           top == Len(s.fcs)
       IN IF ctx.expected = null THEN s
          ELSE IF ctx.expected = "void" \/ ReturnMismatch(ctx.expected, l.e, s.ss)
            THEN [s EXCEPT !.fcs[top].sawReturnAttempt = TRUE,
                           !.err = Diag(n, "returnMismatch", ctx.name, 0)]
            ELSE [s EXCEPT !.fcs[top].sawReturnAttempt = TRUE,
                           !.fcs[top].hasValueReturn = TRUE]

Param(ty, n) == VarInfo("let", ty, TRUE, n, FALSE)

RECURSIVE AddParams(_, _, _)
AddParams(stack, params, n) ==
  IF params = << >> THEN stack
  ELSE AddParams(addVariable(stack, params[1].name, Param(params[1].type, n)),
                 Tail(params), n)

\* The text between the parentheses of a method-like header, split at commas.
ArgParam(e) == [name |-> IF e.form = "ident" THEN e.name ELSE "", type |-> null]

MethodParams(l) ==
  CASE l.k = "ifOpen"    -> << [name |-> l.name, type |-> null] >>
    [] l.k = "plainCall" -> [i \in 1..Len(l.args) |-> ArgParam(l.args[i])]
    [] OTHER             -> << >>

\* Lines 1321-1359: the parameters of a function header, or of a line that
\* looks like a class-method header, become bindings of the current scope.
RegisterParams(s, l, n) ==
  IF s.err # NoErr THEN s
  ELSE IF funcHeaderWithBrace(l)
    THEN [s EXCEPT !.ss = AddParams(@, funcs[l.name].params, n)]
  ELSE IF classMethodWithBrace(l) \/ classMethodNoBrace(l)
    THEN [s EXCEPT !.ss = AddParams(@, MethodParams(l), n)]
  ELSE s

(***************************************************************************)
(* Statements.                                                             *)
(***************************************************************************)
Throw(s, n, kind, name, cite) == [s EXCEPT !.err = Diag(n, kind, name, cite)]

\* declaredType !== rhsType, an interface accepting an obj right-hand side.
DeclTypeMismatch(declared, rhs) ==
  declared # rhs /\ ~(declared \in InterfaceNames /\ rhs = "obj")

\* The same test in mut, inmut and plain assignment, which skip it when
\* either type is unknown.
AssignTypeMismatch(declared, rhs) ==
  declared # null /\ rhs # null /\ DeclTypeMismatch(declared, rhs)

OrElse(t, fallback) == IF t = null THEN fallback ELSE t

\* Lines 1410-1430: the right-hand type of a typed declaration; an unknown
\* type is replaced by the declared one.
declRhsType(l, stack) ==
  IF l.e.form = "arrlit" THEN arrayRhsType(l.e, stack)
  ELSE OrElse(analyzeExprType(l.e, stack), l.ty)

bothArrays(l, stack) ==
  /\ extractArrayType(l.ty).baseType = "arr"
  /\ extractArrayType(declRhsType(l, stack)).baseType = "arr"

\* An element type an array of the inner type does not take: known, other
\* than the inner type, and not an interface offered to an inner obj.
IncompatibleElement(elementType, inner) ==
  /\ elementType # null
  /\ elementType # inner
  /\ ~(inner = "obj" /\ elementType \in InterfaceNames)

\* Lines 1436-1446: arr<T> = arr<U> with U other than T.
ArrInnerMismatch(l, stack) ==
  LET declaredArrayType == extractArrayType(l.ty)
      rhsArrayType == extractArrayType(declRhsType(l, stack))
  IN /\ bothArrays(l, stack)
     /\ declaredArrayType.innerType # null
     /\ rhsArrayType.innerType # null
     /\ IncompatibleElement(rhsArrayType.innerType, declaredArrayType.innerType)

\* Lines 1447-1471: arr<T> = a literal whose elements do not agree on one
\* type, one of them of a known type other than T.
MixedArrayMismatch(l, stack) ==
  LET declaredArrayType == extractArrayType(l.ty)
      rhsArrayType == extractArrayType(declRhsType(l, stack))
      elementTypes == inferArrayElementTypes(l.e, stack)
  IN /\ bothArrays(l, stack)
     /\ declaredArrayType.innerType # null
     /\ rhsArrayType.innerType = null
     /\ l.e.form = "arrlit"
     /\ \E i \in DOMAIN elementTypes :
           IncompatibleElement(elementTypes[i], declaredArrayType.innerType)

\* Lines 1483-1503: the second pass over the elements of a literal assigned
\* to arr<T>; the literal's text is no variable name, so each known element
\* type is compared with T.
ArrElementMismatch(l, stack) ==
  LET declaredArrayType == extractArrayType(l.ty)
      elementTypes == inferArrayElementTypes(l.e, stack)
  IN /\ declaredArrayType.baseType = "arr"
     /\ declaredArrayType.innerType # null
     /\ l.e.form = "arrlit"
     /\ \E i \in DOMAIN elementTypes :
           IncompatibleElement(elementTypes[i], declaredArrayType.innerType)

\* Lines 1362-1561: let / const.
VarDecl(s, l, n) ==
  LET name == l.name
      inScope == hasInCurrentScope(s.ss, name)
      cur == Top(s.ss).variables[name]
      upgradingImplicit == inScope /\ cur.implicit
      rhsType == declRhsType(l, s.ss)
      declared == IF upgradingImplicit
                    THEN [cur EXCEPT !.declaredKind = l.k,
                                     !.declaredType = OrElse(l.ty, cur.declaredType),
                                     !.mutable = (l.k = "let"),
                                     !.implicit = FALSE]
                    ELSE VarInfo(l.k, l.ty, l.k = "let", n, FALSE)
  IN IF inScope /\ ~cur.implicit
       THEN Throw(s, n, "redeclaration", name, 0)
     ELSE IF l.ty # null /\ ArrInnerMismatch(l, s.ss)
       THEN Throw(s, n, "arrInner", name, 0)
     ELSE IF l.ty # null /\ MixedArrayMismatch(l, s.ss)
       THEN Throw(s, n, "mixedArray", name, 0)
     ELSE IF l.ty # null /\ ~bothArrays(l, s.ss) /\ DeclTypeMismatch(l.ty, rhsType)
       THEN Throw(s, n, "typeError", name, 0)
     ELSE IF l.ty # null /\ ArrElementMismatch(l, s.ss)
       THEN Throw(s, n, "arrElement", name, 0)
     ELSE IF l.ty \in InterfaceNames /\ l.e.form = "objlit"
             /\ ~objectLiteralHasKeys(l.e, interfaces[l.ty].requiredKeys)
       THEN Throw(s, n, "ifaceMissing", name, 0)
     ELSE IF l.ty \in InterfaceNames /\ l.e.form = "objlit"
             /\ validateObjectFieldTypesThrows(l.e, interfaces[l.ty], s.ss)
       THEN Throw(s, n, "ifaceField", name, 0)
     ELSE [s EXCEPT !.ss = addVariable(@, name, declared)]

\* existingVar.inmutedAtLine !== undefined && lineNo > existingVar.inmutedAtLine
InmutBlocks(v, n) == v.inmutedAtLine # 0 /\ n > v.inmutedAtLine

\* Lines 1564-1709: mut x = e.
MutStmt(s, l, n) ==
  LET name == l.name
      existingVar == findVariable(s.ss, name)
      marked == [existingVar EXCEPT !.mutable = TRUE]
      rhsType == OrElse(inferTypeFromExpr(l.e, s.ss), existingVar.declaredType)
  IN IF existingVar = NoVar
       THEN [s EXCEPT !.ss = addVariable(@, name,
                       VarInfo("let", analyzeExprType(l.e, s.ss), TRUE, n, TRUE))]
     ELSE IF InmutBlocks(existingVar, n)
       THEN Throw(s, n, "inmutReassign", name, existingVar.inmutedAtLine)
     ELSE IF AssignTypeMismatch(existingVar.declaredType, rhsType)
       THEN Throw([s EXCEPT !.ss = updateVariable(@, name, marked)],
                  n, "typeError", name, 0)
     ELSE [s EXCEPT !.ss = updateVariable(@, name, marked)]

\* Lines 1712-1774: inmut x  and  inmut x = e.
InmutStmt(s, l, n) ==
  LET name == l.name
      existingVar == findVariable(s.ss, name)
      frozen == [existingVar EXCEPT !.inmutedAtLine = n, !.mutable = FALSE]
      rhsType == OrElse(inferTypeFromExpr(l.e, s.ss), existingVar.declaredType)
  IN IF existingVar = NoVar
       THEN Throw(s, n, "inmutUndeclared", name, 0)
     ELSE IF l.k = "inmutAssign"
             /\ AssignTypeMismatch(existingVar.declaredType, rhsType)
       THEN Throw(s, n, "typeError", name, 0)
     ELSE [s EXCEPT !.ss = updateVariable(@, name, frozen)]

\* existingVar.declaredKind === "const"
IsConst(v) == v.declaredKind = "const"

\* Lines 1777-1936: x = e.
AssignStmt(s, l, n) ==
  LET name == l.name
      existingVar == findVariable(s.ss, name)
      rhsType == OrElse(analyzeExprType(l.e, s.ss), existingVar.declaredType)
      typed == IF existingVar.declaredType = null /\ rhsType # null
                 THEN [existingVar EXCEPT !.declaredType = rhsType]
                 ELSE existingVar
  IN IF existingVar = NoVar
       THEN [s EXCEPT !.ss = addVariable(@, name,
                       VarInfo("let", analyzeExprType(l.e, s.ss), TRUE, n, TRUE))]
     ELSE IF IsConst(existingVar)
       THEN Throw(s, n, "constReassign", name, 0)
     ELSE IF InmutBlocks(existingVar, n)
       THEN Throw(s, n, "inmutReassign", name, existingVar.inmutedAtLine)
     ELSE IF AssignTypeMismatch(existingVar.declaredType, rhsType)
       THEN Throw(s, n, "typeError", name, 0)
     ELSE IF existingVar.declaredType \in InterfaceNames /\ l.e.form = "objlit"
             /\ ~objectLiteralHasKeys(l.e, interfaces[existingVar.declaredType].requiredKeys)
       THEN Throw(s, n, "ifaceMissing", name, 0)
     ELSE [s EXCEPT !.ss = updateVariable(@, name, typed)]

\* calledViaCall.has(fname)
NeverCalled(cvc, f) == FALSE
AlreadyCalled(cvc, f) == f \in DOMAIN cvc /\ cvc[f] # 0

\* calledViaCall.set(fname, lineNo)
RecordCall(cvc, f, n) == [cvc EXCEPT ![f] = n]

\* Lines 1938-1956: call f(args).
CallStmt(s, l, n) ==
  IF l.name \notin DOMAIN funcs
    THEN Throw(s, n, "callNotFound", l.name, 0)
  ELSE IF AlreadyCalled(s.cvc, l.name)
    THEN Throw(s, n, "callTwice", l.name, s.cvc[l.name])
  ELSE [s EXCEPT !.cvc = RecordCall(@, l.name, n)]

\* The per-argument test of lines 1979-2016; TRUE when it throws.
ArgMismatch(pinfo, arg, stack) ==
  LET argType == inferTypeFromExpr(arg, stack)
      av == IF arg.form = "ident" THEN findVariable(stack, arg.name) ELSE NoVar
  IN IF pinfo.type \in InterfaceNames
       THEN IF arg.form = "objlit"
              THEN ~objectLiteralHasKeys(arg, DOMAIN interfaces[pinfo.type].fields)
              ELSE av = NoVar \/ av.declaredType # pinfo.type
       ELSE /\ pinfo.type # null
            /\ argType # null
            /\ pinfo.type # argType
            /\ ~(pinfo.type = "obj" /\ argType \in InterfaceNames)

\* Lines 1959-2022: f(args) as a statement.
NormalCall(s, l, n) ==
  IF AlreadyCalled(s.cvc, l.name)
    THEN Throw(s, n, "callOnce", l.name, s.cvc[l.name])
  ELSE IF l.name \notin DOMAIN funcs THEN s
  ELSE IF Len(l.args) # Len(funcs[l.name].params)
    THEN Throw(s, n, "argCount", l.name, 0)
  ELSE IF \E k \in 1..Len(l.args) :
             ArgMismatch(funcs[l.name].params[k], l.args[k], s.ss)
    THEN Throw(s, n, "argType", l.name, 0)
  ELSE s

Statement(s, l, n) ==
  IF s.err # NoErr THEN s
  ELSE CASE l.k \in {"let", "const"}         -> VarDecl(s, l, n)
         [] l.k = "mut"                      -> MutStmt(s, l, n)
         [] l.k \in {"inmut", "inmutAssign"} -> InmutStmt(s, l, n)
         [] l.k = "assign"                   -> AssignStmt(s, l, n)
         [] l.k = "call"                     -> CallStmt(s, l, n)
         [] l.k = "plainCall"                -> NormalCall(s, l, n)
         [] OTHER                            -> s

\* The body of the loop over origLines, lines 1061-2066.
ProcessLine(l, n) ==
  Statement(
    RegisterParams(
      ReturnCheck(
        CloseScopes(OpenScopes(Cur, l, n), l, n),
        l, n),
      l, n),
    l, n)

(***************************************************************************)
(* What the braces of a line really open and close (the nesting a parser   *)
(* of the text sees), and the names let/const declare in each block.       *)
(***************************************************************************)
Block(kind, name) == [kind |-> kind, name |-> name, decls |-> {}]

TextDecl(l, n) == [name |-> l.name, kind |-> l.k, line |-> n]

TextAfter(t, l, n) ==
  CASE l.k = "funcOpen"            -> Append(t, Block("function", l.name))
    [] l.k \in {"ifOpen", "ctrlOpen"} -> Append(t, Block("if", ""))
    [] l.k = "close"               -> Pop(t)
    [] l.k = "closeElse"           -> Append(Pop(t), Block("else", ""))
    [] l.k \in {"let", "const"}    -> [t EXCEPT ![Len(t)].decls = @ \cup {TextDecl(l, n)}]
    [] OTHER                       -> t

InTextFunction(t) == \E i \in 1..Len(t) : t[i].kind = "function"

Declared(f) == \E i \in 1..Len(src) :
                  src[i].k \in {"funcOpen", "funcReturn1", "funcLet1"} /\ src[i].name = f

\* The lines the host-grammar gate lets through at this point of the file.
Admissible(l) ==
  /\ l.k \in {"close", "closeElse"} => Len(textStack) > 1
  /\ l.k = "closeElse" => Top(textStack).kind = "if"
  /\ l.k \in {"return", "ifReturnBare", "ifReturn1"} => InTextFunction(textStack)
  /\ funcHeaderWithBrace(l) => ~Declared(l.name)
  /\ l.k \in {"let", "const"} =>
       \A d \in Top(textStack).decls : d.name # l.name
  /\ l.k = "typeAlias" =>
       \A i \in 1..Len(src) : ~(src[i].k = "typeAlias" /\ src[i].name = l.name)

\* The loop reads one more line: idx < origLines.length.
CanRead(l) ==
  /\ pc = "lines"
  /\ Len(src) < MaxLines
  /\ Admissible(l)

\* One iteration of the loop on line l, the catch block included.
Step(l) ==
  LET n == Len(src) + 1
      s == ProcessLine(l, n)
  IN /\ src' = Append(src, l)
     /\ scopeStack' = s.ss
     /\ scopeTypeStack' = s.sts
     /\ funcContextStack' = s.fcs
     /\ inFunction' = s.inF
     /\ pendingOpenScope' = s.pend
     /\ calledViaCall' = s.cvc
     /\ diagnostics' = IF s.err = NoErr THEN diagnostics
                       ELSE Append(diagnostics, s.err)
     /\ textStack' = TextAfter(textStack, l, n)
     /\ UNCHANGED << pc, thrown >>
     /\ UNCHANGED << phaseVars, cliVars, toolVars >>

\* { code, diagnostics } as returned; NoResult while the call is running.
Result(code, diags) == [returns |-> TRUE, code |-> code, diagnostics |-> diags]

NoResult == [returns |-> FALSE, code |-> << >>, diagnostics |-> << >>]

\* The declarations at the head of transpileSpark and of its loop.
InitLoop ==
  /\ src = << >>
  /\ scopeStack = << createScope("global") >>
  /\ scopeTypeStack = << >>
  /\ funcContextStack = << >>
  /\ inFunction = FALSE
  /\ pendingOpenScope = null
  /\ calledViaCall = [f \in FuncNames |-> 0]
  /\ diagnostics = << >>
  /\ thrown = NoErr
  /\ textStack = << Block("global", "") >>

InitPhases ==
  /\ cleanedForParse = << >>
  /\ parsedToSourceMap = << >>
  /\ outLines = << >>
  /\ returned = NoResult

\* The command-line process has not resolved or written anything.
InitCli ==
  /\ seen = {}
  /\ order = << >>
  /\ visitStack = << >>
  /\ tempDir = "none"
  /\ written = {}
  /\ compiled = 0
  /\ child = "none"
  /\ exiting = FALSE
  /\ sigListeners = {}
  /\ exitCode = "none"

\* No build has started.
NoBuild ==
  /\ buildFiles = << >>
  /\ nFiles = 0
  /\ compiledFiles = << >>
  /\ failed = << >>
  /\ outputs = {}
  /\ processExitCode = 0
  /\ buildPc = "idle"

\* The paths fs.watch reports: two sources, the configuration file and a
\* file that is no source.
WatchedPaths == {"a.ds", "b.ds"}

\* The object setTimeout returns: the path and the event that set it, and
\* the time it is due.
Timeout(id, path, deadline) == [id |-> id, path |-> path, deadline |-> deadline]

NoTimeout == Timeout(0, "", 0)

IgnoredPaths == {"dsk.config.ds", "notes.txt"}

\* Line 617: timers = new Map(); no timeout is set.
NoWatch ==
  /\ now = 0
  /\ pendingTimers = {}
  /\ timers = [p \in WatchedPaths |-> NoTimeout]
  /\ eventLog = [p \in WatchedPaths \cup IgnoredPaths |-> << >>]
  /\ recompileLog = [p \in WatchedPaths |-> << >>]

\* dsk.config.ds: absent, or a file with a text, or an entry that exists
\* and cannot be read (a directory, a file without read permission).
File(exists, readable, text) ==
  [exists |-> exists, readable |-> readable, text |-> text]

Absent == File(FALSE, FALSE, "")

Unreadable == File(TRUE, FALSE, "")

\* No configuration file, no command run.
NoCfg ==
  /\ configFile = Absent
  /\ srcDir = FALSE
  /\ cfgLog = << >>

\* The files of the workspace folder, and the URI scanWorkspace gives each
\* (line 415, on a platform other than win32).
WorkspaceFiles == { "/w/a.ds", "/w/lib.ds" }

uriOf(fp) == "file://" \o fp

Uris == { uriOf(fp) : fp \in WorkspaceFiles }

\* No text: a document that is not open, a uri without diagnostics or
\* without an entry of symbolIndex.
NoText == 0

\* The language server is not running.
NoLsp ==
  /\ lspPc = "idle"
  /\ documents = << >>
  /\ transpile = FALSE
  /\ waiting = << >>
  /\ published = [u \in Uris |-> NoText]
  /\ symbolIndex = [u \in Uris |-> NoText]
  /\ wsQuery = << >>
  /\ wsResult = {}
  /\ wsSeq = 0

NoTools == NoBuild /\ NoWatch /\ NoCfg /\ NoLsp

\* transpileSpark called on its own: no command-line run around it.
NoCli ==
  /\ InitCli
  /\ fileImports = {}
  /\ cliPc = "idle"
  /\ graphLoc = << >>

\* The pass over the lines of a file that passed the syntax gate.
Init ==
  /\ InitLoop
  /\ InitPhases
  /\ pc = "lines"
  /\ sourceCode = << >>
  /\ NoCli
  /\ NoTools

\* Lines 2068-2101: after the loop the whole source is scanned for
\*   (let|const) v::I = { ... };
\* The match starts at a typed declaration of an object literal and runs to
\* the first  };  at or after it, so it swallows the lines in between; the
\* scan resumes behind the match.
PostPassKeys(iface) ==
  IF iface.requiredKeys # {} THEN iface.requiredKeys ELSE DOMAIN iface.fields

StartsTypedObj(l) ==
  /\ l.k \in {"let", "const"}
  /\ l.ty # null
  /\ l.e.form = "objlit"

\* The line ends with  };
EndsLiteral(l) ==
  /\ l.k \in {"let", "const"}
  /\ l.e.form = "objlit"
  /\ l.semi

\* The line the match that starts on line i ends on (0: no match).
MatchEnd(i) ==
  LET ends == {j \in i..Len(src) : EndsLiteral(src[j])}
  IN IF ends = {} THEN 0 ELSE CHOOSE j \in ends : \A k \in ends : j <= k

\* The names followed by a colon in the matched text.
MatchedKeys(i, j) ==
  UNION {DOMAIN src[k].e.props : k \in i..j}
    \cup {src[k].name : k \in (i + 1)..j}

RECURSIVE PostPassFrom(_)
PostPassFrom(i) ==
  IF i > Len(src) THEN NoErr
  ELSE IF ~StartsTypedObj(src[i]) THEN PostPassFrom(i + 1)
  ELSE IF MatchEnd(i) = 0 THEN NoErr
  ELSE IF /\ src[i].ty \in InterfaceNames
          /\ ~(PostPassKeys(interfaces[src[i].ty]) \subseteq MatchedKeys(i, MatchEnd(i)))
    THEN Diag(i, "ifaceUnsatisfied", src[i].name, 0)
  ELSE PostPassFrom(MatchEnd(i) + 1)

PostPassError == PostPassFrom(1)

\* The lines no branch of the loop translates: they reach the output as
\* written, and neither  call f(g(e))  nor  type A = T;  is JavaScript.
EmittedVerbatim(l) == l.k \in {"callNested", "typeAlias"}

\* Lines 2116-2138: with no diagnostic so far the emitted code is parsed; the
\* parser stops at the first line that is not JavaScript.
EmittedSyntaxError ==
  IF \E i \in 1..Len(src) : EmittedVerbatim(src[i])
    THEN LET i == CHOOSE j \in 1..Len(src) :
                    /\ EmittedVerbatim(src[j])
                    /\ \A k \in 1..(j - 1) : ~EmittedVerbatim(src[k])
         IN Diag(i, "emittedSyntax", src[i].name, 0)
    ELSE NoErr

IsInvocationLine(l) == l.k \in {"call", "callNested", "plainCall"}

\* The source holds the line  type a = T;  the alias table was scanned from.
AliasDeclared(a) ==
  \E i \in 1..Len(src) : src[i].k = "typeAlias" /\ src[i].name = a

\* The end of the file: every block of the text is closed and every function
\* of the pre-scan table the file invokes is declared in it (the file passed
\* the syntax gate of lines 669-677); the post-pass runs, the result returns.
EndOfFile ==
  /\ pc = "lines"
  /\ Len(textStack) = 1
  /\ \A i \in 1..Len(src) :
        (IsInvocationLine(src[i]) /\ src[i].name \in FuncNames)
          => Declared(src[i].name)
  /\ \A i \in 1..Len(src) :
        (src[i].k \in {"let", "const"} /\ src[i].ty \in TypeAliasNames)
          => AliasDeclared(src[i].ty)
  /\ pc' = "done"
  /\ thrown' = PostPassError
  /\ diagnostics' =
        IF diagnostics = << >> /\ PostPassError = NoErr /\ EmittedSyntaxError # NoErr
          THEN << EmittedSyntaxError >>
          ELSE diagnostics
  /\ UNCHANGED << src, scopeStack, scopeTypeStack, funcContextStack, inFunction,
                  pendingOpenScope, calledViaCall, textStack >>
  /\ UNCHANGED << phaseVars, cliVars, toolVars >>

(***************************************************************************)
(* Files of functions with declared return types.                          *)
(***************************************************************************)
RetExprs == {NumLit, StrLit, Arith}

FuncHeaderLine ==
  \E f \in FuncNames : CanRead(FuncOpen(f)) /\ Step(FuncOpen(f))

OneLineReturnLine ==
  \E f \in FuncNames, e \in RetExprs :
     CanRead(FuncReturn1(f, e)) /\ Step(FuncReturn1(f, e))

OneLineLetLine ==
  \E f \in FuncNames : CanRead(FuncLet1(f)) /\ Step(FuncLet1(f))

CloseLine == CanRead(Close) /\ Step(Close)

CloseElseLine == CanRead(CloseElse) /\ Step(CloseElse)

IfLine == CanRead(IfOpen("")) /\ Step(IfOpen(""))

CtrlLine == CanRead(CtrlOpen) /\ Step(CtrlOpen)

IfReturnLine ==
  \E e \in RetExprs : CanRead(IfReturn1(e)) /\ Step(IfReturn1(e))

IfReturnBareLine ==
  \E e \in RetExprs : CanRead(IfReturnBare(e)) /\ Step(IfReturnBare(e))

ReturnLine ==
  \E e \in RetExprs : CanRead(Return(e)) /\ Step(Return(e))

NextReturn ==
  \/ FuncHeaderLine
  \/ OneLineReturnLine
  \/ OneLineLetLine
  \/ CloseLine
  \/ CloseElseLine
  \/ IfLine
  \/ CtrlLine
  \/ IfReturnLine
  \/ IfReturnBareLine
  \/ ReturnLine
  \/ EndOfFile

SpecReturn == Init /\ [][NextReturn]_vars

(***************************************************************************)
(* The text of the file, as the claims speak of it.                        *)
(***************************************************************************)
RECURSIVE TextUpTo(_)
TextUpTo(i) ==
  IF i = 0 THEN << Block("global", "") >>
  ELSE TextAfter(TextUpTo(i - 1), src[i], i)

RECURSIVE InnermostFunction(_)
InnermostFunction(t) ==
  IF t = << >> THEN ""
  ELSE IF Top(t).kind = "function" THEN Top(t).name
  ELSE InnermostFunction(Pop(t))

IsReturnLine(l) == l.k \in {"return", "ifReturn1", "ifReturnBare", "funcReturn1"}

\* The function whose body textually holds the return of line i.
EnclosingFunction(i) ==
  IF src[i].k = "funcReturn1" THEN src[i].name
  ELSE InnermostFunction(TextUpTo(i - 1))

\* The primitive type of a literal expression (null: not a literal).
ExprPrimitive(e) ==
  CASE e.form = "numlit"  -> "num"
    [] e.form = "strlit"  -> "str"
    [] e.form = "boollit" -> "mbool"
    [] OTHER              -> null

DiagsOfKindAt(kind, line) ==
  {k \in 1..Len(diagnostics) :
     diagnostics[k].kind = kind /\ diagnostics[k].line = line}

DiagsOfKindFor(kind, name) ==
  {k \in 1..Len(diagnostics) :
     diagnostics[k].kind = kind /\ diagnostics[k].name = name}

DiagsAt(line) == {k \in 1..Len(diagnostics) : diagnostics[k].line = line}

\* Line i returns a literal whose primitive type is not the primitive return
\* type its function declares.
MismatchedReturn(i) ==
  /\ IsReturnLine(src[i])
  /\ EnclosingFunction(i) \in FuncNames
  /\ IsPrimitive(funcs[EnclosingFunction(i)].returnType)
  /\ ExprPrimitive(src[i].e) # null
  /\ ExprPrimitive(src[i].e) # funcs[EnclosingFunction(i)].returnType

\* The file is func Sum(a::num, b::num)::num with the body  return a+b,
\* on one line or on three.
SumFile ==
  src \in { << FuncReturn1("Sum", Arith) >>,
            << FuncOpen("Sum"), Return(Arith), Close >> }

\* C1: compiling a file that holds only Sum, declared ::num over ::num
\* parameters and returning the arithmetic expression a+b, yields zero
\* diagnostics.
C1_SumCompilesClean ==
  (pc = "done" /\ SumFile) => (diagnostics = << >> /\ thrown = NoErr)

\* C2: every return of a literal whose primitive type differs from the
\* primitive return type of the function it is in yields exactly one
\* return-type-mismatch diagnostic on the line of the return, and no
\* missing-return diagnostic is produced for that function.
C2_MismatchReportedOnce ==
  \A i \in 1..Len(src) :
     MismatchedReturn(i) =>
       /\ Cardinality(DiagsOfKindAt("returnMismatch", i)) = 1
       /\ DiagsOfKindFor("missingReturn", EnclosingFunction(i)) = {}

\* The line that closes the block opened on line i (0: still open).
BodyEnd(i) ==
  LET closing == {j \in (i + 1)..Len(src) : Len(TextUpTo(j)) < Len(TextUpTo(i))}
  IN IF closing = {} THEN 0
     ELSE CHOOSE j \in closing : \A k \in closing : j <= k

\* Line i declares a function with a non-void return type whose body, on the
\* same line or on the following lines, holds no return.
NoReturnFunction(i) ==
  /\ src[i].k \in {"funcLet1", "funcOpen"}
  /\ funcs[src[i].name].returnType \notin {null, "void"}
  /\ src[i].k = "funcOpen" =>
       /\ BodyEnd(i) # 0
       /\ \A j \in (i + 1)..(BodyEnd(i) - 1) : ~IsReturnLine(src[j])

\* C3: every function declared with a non-void return type whose body holds
\* no return gets exactly one missing-return diagnostic, on the function's
\* header line, whether the body is on the header's line or on later lines.
C3_MissingReturnAtHeader ==
  pc = "done" =>
    \A i \in 1..Len(src) :
       NoReturnFunction(i) =>
         /\ Cardinality(DiagsOfKindFor("missingReturn", src[i].name)) = 1
         /\ DiagsOfKindFor("missingReturn", src[i].name)
              = DiagsOfKindAt("missingReturn", i)

\* C4: no return lexically inside the body of a function that declares a
\* return type, nested blocks included, is accepted without a diagnostic when
\* its inferred type mismatches the declared type.
C4_NestedReturnsChecked ==
  \A i \in 1..Len(src) : MismatchedReturn(i) => DiagsAt(i) # {}

(***************************************************************************)
(* Files of call statements.                                               *)
(***************************************************************************)
CallFuncs == {"Label", "Log"}

\* Arguments that agree with the parameters of f.
GoodArgs(f) == [k \in 1..Len(funcs[f].params) |->
                  IF funcs[f].params[k].type = "str" THEN StrLit ELSE NumLit]

DeclLine ==
  \E f \in CallFuncs : CanRead(FuncLet1(f)) /\ Step(FuncLet1(f))

\* show is a function the file does not declare.
CallLine ==
  \E f \in CallFuncs \cup {"show"} :
     CanRead(Call(f, << >>)) /\ Step(Call(f, << >>))

CallNestedLine ==
  \E f \in CallFuncs : CanRead(CallNested(f)) /\ Step(CallNested(f))

PlainCallLine ==
  \E f \in CallFuncs, semi \in BOOLEAN :
     CanRead(PlainCall(f, GoodArgs(f), semi)) /\ Step(PlainCall(f, GoodArgs(f), semi))

BadArgCallLine ==
  CanRead(PlainCall("Log", << NumLit >>, TRUE))
    /\ Step(PlainCall("Log", << NumLit >>, TRUE))

NextCall ==
  \/ DeclLine
  \/ CallLine
  \/ CallNestedLine
  \/ PlainCallLine
  \/ BadArgCallLine
  \/ EndOfFile

SpecCall == Init /\ [][NextCall]_vars

IsCallOf(l, f) == l.k \in {"call", "callNested"} /\ l.name = f

IsInvocationOf(l, f) == IsInvocationLine(l) /\ l.name = f

CallDiagsAt(line) ==
  {k \in 1..Len(diagnostics) :
     diagnostics[k].line = line /\ diagnostics[k].kind \in {"callTwice", "callOnce"}}

EarlierCalls(f, j) == {i \in 1..(j - 1) : IsCallOf(src[i], f)}

Least(S) == CHOOSE i \in S : \A k \in S : i <= k

\* C5: a statement invoking a declared function F, by call or plainly, gets
\* a call-once diagnostic exactly when an earlier line invoked F via call,
\* and the diagnostic cites the line of the first such call.
C5_CallOnceIffEarlierCall ==
  \A f \in FuncNames, j \in 1..Len(src) :
     IsInvocationOf(src[j], f) =>
       /\ (CallDiagsAt(j) # {}) <=> (EarlierCalls(f, j) # {})
       /\ \A k \in CallDiagsAt(j) :
            diagnostics[k].cite = Least(EarlierCalls(f, j))

IsPlainArgCallOf(l, f) == l.k = "call" /\ l.name = f

EarlierPlainArgCalls(f, j) == {i \in 1..(j - 1) : IsPlainArgCallOf(src[i], f)}

NoDecl == [name |-> "", kind |-> "none", line |-> 0]

\* The declaration of x the text makes visible after the blocks t: the one
\* of the innermost block that declares x.
RECURSIVE VisibleIn(_, _)
VisibleIn(t, x) ==
  IF t = << >> THEN NoDecl
  ELSE IF \E d \in Top(t).decls : d.name = x
    THEN CHOOSE d \in Top(t).decls : d.name = x
  ELSE VisibleIn(Pop(t), x)

\* The declaration of x visible on line i.
VisibleDecl(i, x) == VisibleIn(TextUpTo(i - 1), x)

AssignedExprs == {NumLit, StrLit}

\* A statement on x is read only where the text has declared x.
CanReadOn(l) == CanRead(l) /\ VisibleIn(textStack, l.name) # NoDecl

DeclareLine ==
  \E kind \in {"let", "const"}, ty \in {null, "num"} :
     CanRead(Decl(kind, "x", ty, NumLit, FALSE))
       /\ Step(Decl(kind, "x", ty, NumLit, FALSE))

MutLine ==
  \E e \in AssignedExprs : CanReadOn(Mut("x", e)) /\ Step(Mut("x", e))

InmutLine == CanReadOn(Inmut("x")) /\ Step(Inmut("x"))

InmutAssignLine ==
  \E e \in AssignedExprs :
     CanReadOn(InmutAssign("x", e)) /\ Step(InmutAssign("x", e))

AssignLine ==
  \E e \in AssignedExprs : CanReadOn(Assign("x", e)) /\ Step(Assign("x", e))

\* show(x)  or  show(x);  with show a function the file does not declare.
ShowLine ==
  \E semi \in BOOLEAN :
     CanRead(PlainCall("show", << Ident("x") >>, semi))
       /\ Step(PlainCall("show", << Ident("x") >>, semi))

IfOnNameLine == CanRead(IfOpen("x")) /\ Step(IfOpen("x"))

NextMut ==
  \/ DeclareLine
  \/ MutLine
  \/ InmutLine
  \/ InmutAssignLine
  \/ AssignLine
  \/ ShowLine
  \/ IfOnNameLine
  \/ CloseLine
  \/ EndOfFile

SpecMut == Init /\ [][NextMut]_vars

\* Line j assigns to the binding of its name that declaration d introduced.
AssignsTo(j, kinds, d) ==
  /\ src[j].k \in kinds
  /\ d # NoDecl
  /\ VisibleDecl(j, src[j].name) = d

\* C7: for a bound, non-const name x, mut x = e or x = e gets the 'cannot
\* reassign after inmut' diagnostic exactly when an inmut of x was processed
\* on a strictly earlier line.
C7_RejectedIffInmutEarlier ==
  \A j \in 1..Len(src) :
     LET d == VisibleDecl(j, src[j].name)
     IN (AssignsTo(j, {"mut", "assign"}, d) /\ d.kind = "let") =>
          /\ (\E i \in 1..(j - 1) : AssignsTo(i, {"inmut"}, d))
               => DiagsOfKindAt("inmutReassign", j) # {}
          /\ DiagsOfKindAt("inmutReassign", j) # {}
               => \E i \in 1..(j - 1) : AssignsTo(i, {"inmut", "inmutAssign"}, d)

\* C8: once inmut x has been processed, every statement on a later line that
\* assigns to x (mut x = e, x = e, inmut x = e) gets a diagnostic.
C8_NoAssignmentAfterInmut ==
  \A i, j \in 1..Len(src) :
     LET d == VisibleDecl(i, src[i].name)
     IN (i < j /\ AssignsTo(i, {"inmut"}, d)
               /\ AssignsTo(j, {"mut", "assign", "inmutAssign"}, d))
          => DiagsAt(j) # {}

\* C9: every statement that assigns to a name whose visible binding was
\* declared with const gets a diagnostic, in each form: x = e, mut x = e,
\* inmut x = e.
C9_ConstNeverAssigned ==
  \A j \in 1..Len(src) :
     LET d == VisibleDecl(j, src[j].name)
     IN (AssignsTo(j, {"assign", "mut", "inmutAssign"}, d) /\ d.kind = "const")
          => DiagsAt(j) # {}

(***************************************************************************)
(* Files of declarations typed by an interface.                            *)
(***************************************************************************)
FieldValues == {StrLit, NumLit, Arith}

\* The object literals over the fields of interface i.
ObjLits(i) ==
  {ObjLit(props) :
     props \in UNION {[ks -> FieldValues] : ks \in SUBSET DOMAIN interfaces[i].fields}}

TypedDeclLine ==
  \E v \in {"x", "a"}, i \in InterfaceNames, semi \in BOOLEAN :
     \E lit \in ObjLits(i) :
        CanRead(Decl("let", v, i, lit, semi)) /\ Step(Decl("let", v, i, lit, semi))

NextIface ==
  \/ TypedDeclLine
  \/ EndOfFile

SpecIface == Init /\ [][NextIface]_vars

\* The type of the value an expression denotes: 1+2 is a num.
ValueType(e) == IF e.form = "arith" THEN "num" ELSE ExprPrimitive(e)

Supplied(l) == DOMAIN l.e.props \cap DOMAIN interfaces[l.ty].fields

\* The literal supplies every required field, and each field it supplies has
\* a value of the field's declared type.
SatisfiesInterface(l) ==
  /\ interfaces[l.ty].requiredKeys \subseteq DOMAIN l.e.props
  /\ \A k \in Supplied(l) : ValueType(l.e.props[k]) = interfaces[l.ty].fields[k]

\* A required field is missing, or a supplied field's value has an inferred
\* type other than the field's.
BreaksInterface(l) ==
  \/ ~(interfaces[l.ty].requiredKeys \subseteq DOMAIN l.e.props)
  \/ \E k \in Supplied(l) :
        /\ ExprPrimitive(l.e.props[k]) # null
        /\ ExprPrimitive(l.e.props[k]) # interfaces[l.ty].fields[k]

Rejected(i) == DiagsAt(i) # {} \/ (thrown # NoErr /\ thrown.line = i)

\* C10: let v::I = { ... } compiles without a diagnostic when the literal
\* supplies every required field of I with a value of the field's type, and
\* fails when a required field is missing or a supplied field has a value of
\* another inferred type.
C10_TypedObjectDeclaration ==
  pc = "done" =>
    \A i \in 1..Len(src) :
       (src[i].k = "let" /\ src[i].ty \in InterfaceNames) =>
         /\ SatisfiesInterface(src[i]) => ~Rejected(i)
         /\ BreaksInterface(src[i]) => Rejected(i)

\* Every field the literal supplies holds a literal of the field's type.
LiteralFields(l) ==
  \A k \in Supplied(l) : ExprPrimitive(l.e.props[k]) = interfaces[l.ty].fields[k]

\* The literal leaves out an optional field of its interface and nothing else.
OmitsOnlyOptional(l) ==
  /\ interfaces[l.ty].requiredKeys \subseteq DOMAIN l.e.props
  /\ interfaces[l.ty].optionalFields \ DOMAIN l.e.props # {}

\* C11: a typed declaration whose object literal is right in every field it
\* supplies and omits only optional fields of the interface gets no diagnostic
\* and no thrown error, also when every field of the interface is optional.
C11_OptionalOmissionAccepted ==
  pc = "done" =>
    \A i \in 1..Len(src) :
       (/\ src[i].k = "let"
        /\ src[i].ty \in InterfaceNames
        /\ LiteralFields(src[i])
        /\ OmitsOnlyOptional(src[i])) => ~Rejected(i)

(***************************************************************************)
(* Files of declarations of typed arrays.                                  *)
(***************************************************************************)
MaxElems == 3

ArrInnerTypes == {"num", "str"}

ElemShapes == {NumLit, StrLit, Ident("a"), Arith}

\* The array literals of at most MaxElems elements.
ArrLits == {ArrLit(elems) : elems \in UNION {[1..k -> ElemShapes] : k \in 0..MaxElems}}

IsArrDecl(l) == l.k \in {"let", "const"} /\ l.e.form = "arrlit"

\* let a::num = 1   or   let a::str = "s"
TypedNameLine ==
  \E e \in {NumLit, StrLit} :
     CanRead(Decl("let", "a", ExprPrimitive(e), e, FALSE))
       /\ Step(Decl("let", "a", ExprPrimitive(e), e, FALSE))

\* let x::arr<T> = [e1, ..., en], once in a file.
ArrDeclLine ==
  \E t \in ArrInnerTypes, lit \in ArrLits :
     /\ \A i \in 1..Len(src) : ~IsArrDecl(src[i])
     /\ CanRead(Decl("let", "x", ArrOf(t), lit, FALSE))
     /\ Step(Decl("let", "x", ArrOf(t), lit, FALSE))

NextArr ==
  \/ TypedNameLine
  \/ ArrDeclLine
  \/ EndOfFile

SpecArr == Init /\ [][NextArr]_vars

\* The type of element e of the literal on line i: a literal's own type, an
\* identifier's the type its visible declaration annotates.
ElementType(i, e) ==
  IF e.form = "ident"
    THEN IF VisibleDecl(i, e.name) = NoDecl THEN null
         ELSE src[VisibleDecl(i, e.name).line].ty
    ELSE ExprPrimitive(e)

ElementTypes(i) == {ElementType(i, src[i].e.props[k]) : k \in DOMAIN src[i].e.props}

\* A diagnostic of line i whose message names the inferred and the declared
\* inner type.
NamesBothTypes(i) ==
  \E k \in DiagsAt(i) :
     {"inferred", "declared"} \subseteq messageNames(diagnostics[k].kind)

\* C12: let v::arr<T> = [e1, ..., en] with a primitive T gets no diagnostic
\* when every element has inferred type T, and when some element has another
\* inferred type it gets a type diagnostic that names both the inferred and
\* the declared inner type.
C12_TypedArrayLiteral ==
  \A i \in 1..Len(src), t \in ArrInnerTypes :
     (IsArrDecl(src[i]) /\ src[i].ty = ArrOf(t)) =>
       /\ ElementTypes(i) \subseteq {t} => DiagsAt(i) = {}
       /\ ElementTypes(i) \ {t, null} # {} => NamesBothTypes(i)

\* The two halves of C12 without the wording of the message.
C12_AcceptedIffNoOtherType ==
  \A i \in 1..Len(src), t \in ArrInnerTypes :
     (IsArrDecl(src[i]) /\ src[i].ty = ArrOf(t)) =>
       (DiagsAt(i) # {} <=> ElementTypes(i) \ {t, null} # {})

(***************************************************************************)
(* Files of declarations typed by an alias.                                *)
(***************************************************************************)
AliasLine ==
  \E a \in TypeAliasNames : CanRead(TypeAlias(a)) /\ Step(TypeAlias(a))

\* let x::A = e  and, for comparison,  let x::T = e
AliasDeclLine ==
  \E ty \in TypeAliasNames \cup {"num", "str"}, e \in AssignedExprs \cup {Arith} :
     CanRead(Decl("let", "x", ty, e, FALSE)) /\ Step(Decl("let", "x", ty, e, FALSE))

NextAlias ==
  \/ AliasLine
  \/ AliasDeclLine
  \/ AssignLine
  \/ EndOfFile

SpecAlias == Init /\ [][NextAlias]_vars

\* Line i declares a name of an alias type, or assigns to a name whose
\* visible declaration has an alias type: the alias.
AliasOfLine(i) ==
  IF src[i].k \in {"let", "const"} THEN src[i].ty
  ELSE IF src[i].k = "assign" /\ VisibleDecl(i, src[i].name) # NoDecl
    THEN src[VisibleDecl(i, src[i].name).line].ty
  ELSE null

\* C13: with type A = T and T a primitive, let v::A = e and a later
\* assignment v = e are accepted when e has inferred type T and rejected when
\* e has another primitive type, as if v were declared ::T.
C13_AliasResolved ==
  \A i \in 1..Len(src) :
     AliasOfLine(i) \in TypeAliasNames =>
       /\ ExprPrimitive(src[i].e) = typeAliases[AliasOfLine(i)] => DiagsAt(i) = {}
       /\ ExprPrimitive(src[i].e) \notin {typeAliases[AliasOfLine(i)], null}
            => DiagsAt(i) # {}

(***************************************************************************)
(* Files of declarations and bare assignments of one name, in nested       *)
(* blocks.                                                                 *)
(***************************************************************************)
\* x = e, also where the text has not declared x: the binding is implicit.
BareAssignLine ==
  \E e \in AssignedExprs : CanRead(Assign("x", e)) /\ Step(Assign("x", e))

\* let x = 1, let x::num = 1, let x::num = "s", and the same with const.
PlainOrTypedDeclLine ==
  \E kind \in {"let", "const"} :
     \E d \in {<<null, NumLit>>, <<"num", NumLit>>, <<"num", StrLit>>} :
        CanRead(Decl(kind, "x", d[1], d[2], FALSE))
          /\ Step(Decl(kind, "x", d[1], d[2], FALSE))

NextDecl ==
  \/ BareAssignLine
  \/ PlainOrTypedDeclLine
  \/ IfLine
  \/ IfOnNameLine
  \/ CloseLine
  \/ EndOfFile

SpecDecl == Init /\ [][NextDecl]_vars

\* The step reads a let/const line.
DeclStep ==
  /\ Len(src') = Len(src) + 1
  /\ src'[Len(src')].k \in {"let", "const"}

\* The step appends a redeclaration diagnostic.
RedeclaredNow ==
  /\ Len(diagnostics') = Len(diagnostics) + 1
  /\ diagnostics'[Len(diagnostics')].kind = "redeclaration"
  /\ diagnostics'[Len(diagnostics')].line = Len(src')

\* The binding of x the open scope itself holds before the step.
HeldBinding(x) == Top(scopeStack).variables[x]

HeldExplicit(x) == HeldBinding(x) # NoVar /\ ~HeldBinding(x).implicit

HeldImplicit(x) == HeldBinding(x) # NoVar /\ HeldBinding(x).implicit

\* The implicit binding made explicit in place: the kind of the declaration,
\* its annotation if it has one, the line of the first sight kept.
Upgraded(v, l) ==
  [v EXCEPT !.declaredKind = l.k,
            !.declaredType = IF l.ty = null THEN v.declaredType ELSE l.ty,
            !.mutable = (l.k = "let"),
            !.implicit = FALSE]

C15_ErrorsReturnedNotThrown ==
  pc = "done" => thrown = NoErr

(***************************************************************************)
(* The phases of transpileSpark around the loop, on files of whole lines.  *)
(*   code        let y = 1                                                 *)
(*   bad         let x = ;            (not JavaScript)                     *)
(*   semErr      let a::num = "s"     (JavaScript once ::num is removed)   *)
(*   alias       type A = num;                                             *)
(*   strOpen     let s = "/*"                                              *)
(*   strClose    let t = "*/"                                              *)
(*   iface1      interface P { name::str; }                                *)
(*   ifaceOpen   interface P {                                             *)
(*   ifaceField    name::str;                                              *)
(*   ifaceClose  }                                                         *)
(***************************************************************************)
MaxFileLines == 4

FileShapes == {"code", "bad", "semErr", "alias", "strOpen", "strClose",
               "iface1", "ifaceOpen", "ifaceField", "ifaceClose"}

\* After the lines t the text is inside a multi-line interface block.
RECURSIVE InsideInterface(_)
InsideInterface(t) ==
  IF t = << >> THEN FALSE
  ELSE LET l == t[Len(t)]
       IN IF l = "ifaceOpen" THEN TRUE
          ELSE IF l = "ifaceClose" THEN FALSE
          ELSE InsideInterface(Pop(t))

\* The files in which every interface block is closed (line 508 throws on
\* the others) and the lines of a block occur inside a block only.
WellFormedFile(f) ==
  /\ ~InsideInterface(f)
  /\ \A i \in 1..Len(f) :
        LET inside == InsideInterface(SubSeq(f, 1, i - 1))
        IN IF inside THEN f[i] \in {"ifaceField", "ifaceClose"}
           ELSE f[i] \notin {"ifaceField", "ifaceClose"}

Files ==
  {f \in UNION {[1..k -> FileShapes] : k \in 1..MaxFileLines} : WellFormedFile(f)}

\* Lines 486-547: the text from the keyword interface to the brace that
\* closes the block is cut out; the line break behind the block stays, so
\* every block leaves one empty line.
RECURSIVE stripInterfaces(_, _, _)
stripInterfaces(f, i, inBlock) ==
  IF i > Len(f) THEN << >>
  ELSE IF inBlock THEN stripInterfaces(f, i + 1, f[i] # "ifaceClose")
  ELSE IF f[i] = "iface1" THEN << "blank" >> \o stripInterfaces(f, i + 1, FALSE)
  ELSE IF f[i] = "ifaceOpen" THEN << "blank" >> \o stripInterfaces(f, i + 1, TRUE)
  ELSE << f[i] >> \o stripInterfaces(f, i + 1, FALSE)

\* Lines 569-638: an alias declaration becomes an empty line, ::Type is
\* removed from the other lines.
cleanForParse(l) ==
  CASE l = "alias"  -> "blank"
    [] l = "semErr" -> "code"
    [] OTHER        -> l

cleanedForParseLines(f) ==
  LET parseLines == stripInterfaces(f, 1, FALSE)
  IN [i \in 1..Len(parseLines) |-> cleanForParse(parseLines[i])]

\* The braces the scan of lines 655-659 counts on a line inside a block.
DepthAfter(l, depth) ==
  CASE l = "ifaceOpen"  -> depth + 1
    [] l = "ifaceClose" -> depth - 1
    [] OTHER            -> depth

\* Lines 644-666: the line that opens an interface and the lines up to the
\* one on which the depth returns to 0 get no entry; the braces of the
\* opening line itself are not counted.
RECURSIVE buildParsedToSourceMap(_, _, _, _, _)
buildParsedToSourceMap(f, i, inIface, depth, map) ==
  IF i > Len(f) THEN map
  ELSE IF ~inIface /\ f[i] \in {"iface1", "ifaceOpen"}
    THEN buildParsedToSourceMap(f, i + 1, TRUE, 1, map)
  ELSE IF inIface
    THEN buildParsedToSourceMap(f, i + 1, DepthAfter(f[i], depth) # 0,
                                DepthAfter(f[i], depth), map)
  ELSE buildParsedToSourceMap(f, i + 1, FALSE, depth, Append(map, i))

\* acornParse: the line of the first text that is not JavaScript, 0 if the
\* text parses.
NotJavaScript(l) == l \in {"bad", "alias"}

NoError(text) == 0

acornError(text) ==
  IF \E i \in 1..Len(text) : NotJavaScript(text[i])
    THEN CHOOSE i \in 1..Len(text) :
            /\ NotJavaScript(text[i])
            /\ \A j \in 1..(i - 1) : ~NotJavaScript(text[j])
    ELSE 0

\* parsedToSourceMap[parsedLine - 1] || parsedLine
mappedLine(map, parsedLine) ==
  IF parsedLine \in DOMAIN map THEN map[parsedLine] ELSE parsedLine

\* Lines 1068-1088: the loop skips a line that starts with interface and the
\* lines of the block it opens; here the braces of the opening line count.
SkippedAsInterface(l) == l \in {"iface1", "ifaceOpen", "ifaceField", "ifaceClose"}

Emitted(text, srcLine) == [text |-> text, srcLine |-> srcLine]

\* outCode, line by line.
outCode(out) == [i \in 1..Len(out) |-> out[i].text]

\* Lines 2124-2126: block comments, then line comments, are removed by
\* pattern, wherever the text holds  /*  and  */ : from the first  /*  to
\* the first  */  behind it, the rest of both lines joined.
RECURSIVE stripComments(_, _)
stripComments(text, i) ==
  IF i > Len(text) THEN << >>
  ELSE LET ends == {j \in (i + 1)..Len(text) : text[j] = "strClose"}
       IN IF text[i] = "strOpen" /\ ends # {}
            THEN << "code" >>
                   \o stripComments(text, 1 + CHOOSE j \in ends : \A k \in ends : j <= k)
            ELSE << text[i] >> \o stripComments(text, i + 1)

InitCompile ==
  /\ InitLoop
  /\ InitPhases
  /\ pc = "strip"
  /\ sourceCode \in Files
  /\ NoCli
  /\ NoTools

\* Lines 478-666: interfaces and aliases are extracted, the text for the
\* parser and the line map are built.
Preprocess ==
  /\ pc = "strip"
  /\ cleanedForParse' = cleanedForParseLines(sourceCode)
  /\ parsedToSourceMap' = buildParsedToSourceMap(sourceCode, 1, FALSE, 0, << >>)
  /\ pc' = "gate"
  /\ UNCHANGED << loopVars, diagnostics, sourceCode, outLines, returned >>
  /\ UNCHANGED << cliVars, toolVars >>

\* Lines 668-677, the parser rejects the cleaned text: one diagnostic, the
\* empty code, return.
GateFails ==
  /\ pc = "gate"
  /\ acornError(cleanedForParse) # 0
  /\ LET d == Diag(mappedLine(parsedToSourceMap, acornError(cleanedForParse)),
                   "syntax", "", 0)
     IN /\ diagnostics' = Append(diagnostics, d)
        /\ returned' = Result(<< >>, Append(diagnostics, d))
  /\ pc' = "returned"
  /\ UNCHANGED << loopVars, sourceCode, cleanedForParse, parsedToSourceMap, outLines >>
  /\ UNCHANGED << cliVars, toolVars >>

GatePasses ==
  /\ pc = "gate"
  /\ acornError(cleanedForParse) = 0
  /\ pc' = "pass"
  /\ UNCHANGED << loopVars, diagnostics, phaseVars >>
  /\ UNCHANGED << cliVars, toolVars >>

\* One iteration of the loop of lines 1061-2066: an interface line is
\* skipped, an error is caught and recorded, any other line is emitted.
PassLine ==
  /\ pc = "pass"
  /\ Len(src) < Len(sourceCode)
  /\ LET n == Len(src) + 1
         l == sourceCode[n]
     IN /\ src' = Append(src, l)
        /\ diagnostics' = IF l = "semErr"
                            THEN Append(diagnostics, Diag(n, "typeError", "a", 0))
                            ELSE diagnostics
        /\ outLines' = IF SkippedAsInterface(l) \/ l = "semErr" THEN outLines
                       ELSE Append(outLines, Emitted(l, n))
  /\ UNCHANGED << pc, scopeStack, scopeTypeStack, funcContextStack, inFunction,
                  pendingOpenScope, calledViaCall, thrown, textStack,
                  sourceCode, cleanedForParse, parsedToSourceMap, returned >>
  /\ UNCHANGED << cliVars, toolVars >>

LoopDone == pc = "pass" /\ Len(src) = Len(sourceCode)

ReturnResult(res) ==
  /\ returned' = res
  /\ pc' = "returned"
  /\ UNCHANGED << loopVars, sourceCode, cleanedForParse, parsedToSourceMap, outLines >>
  /\ UNCHANGED << cliVars, toolVars >>

\* Lines 2115-2117: with diagnostics the code is returned unparsed.
ReturnDiagnostics ==
  /\ LoopDone
  /\ diagnostics # << >>
  /\ UNCHANGED diagnostics
  /\ ReturnResult(Result(outLines, diagnostics))

\* Lines 2120-2121 and 2139: the emitted code parses.
FinalParseOk ==
  /\ LoopDone
  /\ diagnostics = << >>
  /\ acornError(outCode(outLines)) = 0
  /\ UNCHANGED diagnostics
  /\ ReturnResult(Result(outLines, diagnostics))

\* Lines 2122-2131: it does not, but it does without its comments; the code
\* is returned as emitted.
FinalParseRetryOk ==
  /\ LoopDone
  /\ diagnostics = << >>
  /\ acornError(outCode(outLines)) # 0
  /\ acornError(stripComments(outCode(outLines), 1)) = 0
  /\ UNCHANGED diagnostics
  /\ ReturnResult(Result(outLines, diagnostics))

\* Lines 2132-2137: it does not either way; the error goes to the source
\* line of the emitted line.
FinalParseFails ==
  /\ LoopDone
  /\ diagnostics = << >>
  /\ acornError(outCode(outLines)) # 0
  /\ acornError(stripComments(outCode(outLines), 1)) # 0
  /\ LET d == Diag(outLines[acornError(outCode(outLines))].srcLine,
                   "emittedSyntax", "", 0)
     IN /\ diagnostics' = << d >>
        /\ ReturnResult(Result(outLines, << d >>))

NextCompile ==
  \/ Preprocess
  \/ GateFails
  \/ GatePasses
  \/ PassLine
  \/ ReturnDiagnostics
  \/ FinalParseOk
  \/ FinalParseRetryOk
  \/ FinalParseFails

SpecCompile == InitCompile /\ [][NextCompile]_vars

\* The file holds a line that is not JavaScript after preprocessing: the
\* pre-semantic validation fails on it.
HasSyntaxError == \E i \in 1..Len(sourceCode) : sourceCode[i] = "bad"

\* The line of the source on which the first such text stands.
FirstSyntaxError ==
  CHOOSE i \in 1..Len(sourceCode) :
     /\ sourceCode[i] = "bad"
     /\ \A j \in 1..(i - 1) : sourceCode[j] # "bad"

\* C16: when the pre-semantic validation fails the call returns exactly one
\* diagnostic, the one of the validation, and empty code; the loop of the
\* semantic pass has processed no line and emitted nothing.
C16_GateIsHard ==
  (returned.returns /\ HasSyntaxError) =>
     /\ Len(returned.diagnostics) = 1
     /\ returned.diagnostics[1].kind = "syntax"
     /\ returned.code = << >>
     /\ src = << >>
     /\ outLines = << >>

\* A file with a syntax error and, on another line, a type error has been
\* compiled.
C16_SyntaxAndTypeError ==
  /\ returned.returns
  /\ HasSyntaxError
  /\ \E i \in 1..Len(sourceCode) : sourceCode[i] = "semErr"

\* C17: the diagnostic of a failed pre-semantic validation carries the line
\* number the offending text has in the original source, whatever interface
\* blocks precede it.
C17_OriginalLineNumber ==
  (returned.returns /\ HasSyntaxError) =>
     returned.diagnostics[1].line = FirstSyntaxError

\* C18: a result without diagnostics holds code that parses as returned.
C18_ReturnedCodeParses ==
  (returned.returns /\ returned.diagnostics = << >>) =>
     acornError(outCode(returned.code)) = 0

(***************************************************************************)
(* The command-line interface, src/unnamed/part_002: the single-file run.  *)
(* resolveDsDependencyGraph (774-796) walks the import statements of the   *)
(* entry file depth first.                                                 *)
(***************************************************************************)
MaxImports == 5

\* The .ds files on disk, named by their resolved absolute path.
DsFiles == {"entry", "b", "c", "d"}

\* What a specifier can resolve to: a file on disk, or a path ("gone")
\* that readFileSync cannot read.
Specifiers == DsFiles \cup {"gone"}

\* The order in which a file's import statements stand in its text.
SpecifierOrder == << "b", "c", "d", "entry", "gone" >>

\* `import x from "./s.ds"` or `export x from "./s.ds"` (form "from");
\* `import "./s.ds"` and `import("./s.ds")` (form "bare"), the two forms
\* transpiler.ts rewrites besides the first (lines 588-595).
ImportStmt(f, s, form) == [file |-> f, spec |-> s, form |-> form]

\* The texts readFileSync can return for f: at most one statement per
\* specifier, none of f itself, and no more than MaxImports statements in
\* all the files read so far.
Contents(f) ==
  LET stmts == {ImportStmt(f, s, form) :
                  s \in Specifiers \ {f}, form \in {"from", "bare"}}
  IN {C \in SUBSET stmts :
        /\ \A x, y \in C : x.spec = y.spec => x = y
        /\ Cardinality(fileImports) + Cardinality(C) <= MaxImports}

\* Line 782: readFileSync succeeds.
readable(f) == f \in DsFiles

\* Lines 785-787: the specifiers the expression
\*   /\b(?:import|export)\b[\s\S]*?\bfrom\b\s*['"]([^'"]+\.ds)['"]/g
\* finds in the text of f, in order. A statement without `from` has no
\* match of its own.
matches(fs, f) ==
  SelectSeq(SpecifierOrder, LAMBDA s : ImportStmt(f, s, "from") \in fs)

Frame(f, i) == [file |-> f, next |-> i]

TopFrame == visitStack[Len(visitStack)]

\* The match the innermost call of visit is about to handle.
AtMatch ==
  /\ cliPc = "visit"
  /\ visitStack # << >>
  /\ TopFrame.next <= Len(matches(fileImports, TopFrame.file))

NextChild == matches(fileImports, TopFrame.file)[TopFrame.next]

Advance(stack) ==
  [stack EXCEPT ![Len(stack)] = Frame(@.file, @.next + 1)]

runVars == << graphLoc, tempDir, written, compiled, child, exiting,
              sigListeners, exitCode >>

compilerVars == << src, pc, scopeStack, scopeTypeStack, funcContextStack,
                   inFunction, pendingOpenScope, calledViaCall, diagnostics,
                   thrown, textStack, phaseVars >>

InitCompilerIdle ==
  /\ InitLoop
  /\ InitPhases
  /\ pc = "idle"
  /\ sourceCode = << >>

InitGraph ==
  /\ InitCompilerIdle
  /\ NoTools
  /\ InitCli
  /\ fileImports = {}
  /\ cliPc = "start"
  /\ graphLoc = << >>

\* Line 794, visit(entryAbs): the entry is new and readable (runSingleFile
\* has read it at line 643); its text is read.
VisitEntry ==
  /\ cliPc = "start"
  /\ seen' = {"entry"}
  /\ \E content \in Contents("entry") : fileImports' = fileImports \cup content
  /\ visitStack' = << Frame("entry", 1) >>
  /\ cliPc' = "visit"
  /\ UNCHANGED << order, runVars, compilerVars, toolVars >>

\* Lines 788-790 and 779: visit(child) for a path already in seen.
VisitSeen ==
  /\ AtMatch
  /\ NextChild \in seen
  /\ visitStack' = Advance(visitStack)
  /\ UNCHANGED << fileImports, seen, order, cliPc, runVars, compilerVars, toolVars >>

\* Lines 780-782: the path is new but cannot be read; it stays in seen
\* and is not pushed onto order.
VisitUnreadable ==
  /\ AtMatch
  /\ NextChild \notin seen
  /\ ~ readable(NextChild)
  /\ seen' = seen \cup {NextChild}
  /\ visitStack' = Advance(visitStack)
  /\ UNCHANGED << fileImports, order, cliPc, runVars, compilerVars, toolVars >>

\* Lines 780-787: the path is new and readable; its text is read and its
\* own matches come first.
VisitChild ==
  /\ AtMatch
  /\ NextChild \notin seen
  /\ readable(NextChild)
  /\ seen' = seen \cup {NextChild}
  /\ \E content \in Contents(NextChild) : fileImports' = fileImports \cup content
  /\ visitStack' = Append(Advance(visitStack), Frame(NextChild, 1))
  /\ UNCHANGED << order, cliPc, runVars, compilerVars, toolVars >>

\* Line 792: order.push(real) after the last match.
RecordFile ==
  /\ cliPc = "visit"
  /\ visitStack # << >>
  /\ TopFrame.next > Len(matches(fileImports, TopFrame.file))
  /\ order' = Append(order, TopFrame.file)
  /\ visitStack' = SubSeq(visitStack, 1, Len(visitStack) - 1)
  /\ UNCHANGED << fileImports, seen, cliPc, runVars, compilerVars, toolVars >>

\* Line 795: return order.
ReturnOrder ==
  /\ cliPc = "visit"
  /\ visitStack = << >>
  /\ cliPc' = "resolved"
  /\ UNCHANGED << fileImports, seen, order, visitStack, runVars, compilerVars, toolVars >>

NextGraph ==
  \/ VisitEntry
  \/ VisitSeen
  \/ VisitUnreadable
  \/ VisitChild
  \/ RecordFile
  \/ ReturnOrder

SpecGraph == InitGraph /\ [][NextGraph]_vars

\* The files f imports, by statements of the given forms.
ImportsBy(f, forms) ==
  {st.spec : st \in {t \in fileImports : t.file = f /\ t.form \in forms}}
    \cap DsFiles

RECURSIVE ReachableFrom(_, _)
ReachableFrom(S, forms) ==
  LET N == S \cup UNION {ImportsBy(f, forms) : f \in S}
  IN IF N = S THEN S ELSE ReachableFrom(N, forms)

\* No file of S reaches itself.
Acyclic(S, forms) ==
  \A f \in S : f \notin ReachableFrom(ImportsBy(f, forms), forms)

Occurrences(f) == Cardinality({i \in 1..Len(order) : order[i] = f})

Position(f) == CHOOSE i \in 1..Len(order) : order[i] = f

\* Each file of S stands once in order, the entry last, and when the graph
\* is acyclic every file stands after the files it imports.
OnceAndDependenciesFirst(forms) ==
  LET S == ReachableFrom({"entry"}, forms)
  IN /\ \A f \in S : Occurrences(f) = 1
     /\ \A i \in 1..Len(order) : order[i] \in S
     /\ order[Len(order)] = "entry"
     /\ Acyclic(S, forms)
          => \A f \in S : \A g \in ImportsBy(f, forms) : Position(g) < Position(f)

\* C19: when the resolution of the dependency graph has returned, each file
\* reachable from the entry by import statements is listed exactly once, and
\* if the graph has no cycle each file is listed after all the files it
\* imports, the entry last.
C19_EachFileOnceDependenciesFirst ==
  cliPc = "resolved" => OnceAndDependenciesFirst({"from", "bare"})

\* The same for the graph of the statements with `from` alone.
C19_FromImportsOnceDependenciesFirst ==
  cliPc = "resolved" => OnceAndDependenciesFirst({"from"})

\* The walk is bounded: a file has at most one running call of visit, and
\* every file on order has returned from its call.
C19_VisitedAtMostOnce ==
  /\ \A i, j \in 1..Len(visitStack) :
       visitStack[i].file = visitStack[j].file => i = j
  /\ \A i, j \in 1..Len(order) : order[i] = order[j] => i = j
  /\ \A i \in 1..Len(order) : \A j \in 1..Len(visitStack) :
       order[i] # visitStack[j].file

\* The diamond with a cycle: entry imports b and c, both import d, d
\* imports the entry; the resolution has returned.
C19_DiamondWithCycle ==
  /\ cliPc = "resolved"
  /\ { ImportStmt("entry", "b", "from"), ImportStmt("entry", "c", "from"),
       ImportStmt("b", "d", "from"), ImportStmt("c", "d", "from"),
       ImportStmt("d", "entry", "from") } = fileImports

\* The walk is one synchronous call: each of its steps is taken.
FairSpecGraph == SpecGraph /\ WF_vars(NextGraph)

\* The resolution returns.
C19_Terminates == <>(cliPc = "resolved")

(***************************************************************************)
(* runSingleFile (638-729): the files of the graph are compiled into a     *)
(* temporary directory, the entry is run in a child process, the directory *)
(* is removed by onExit.                                                   *)
(***************************************************************************)
MaxGraph == 3

graphVars == << fileImports, seen, order, visitStack >>

\* Where a file lies: in the directory of the entry, below it, above it.
Locations == {"entryDir", "subDir", "parentDir"}

\* The lists resolveDsDependencyGraph returns: distinct files, entry last.
Graphs ==
  {g \in UNION {[1..n -> DsFiles] : n \in 1..MaxGraph} :
     /\ g[Len(g)] = "entry"
     /\ \A i, j \in 1..Len(g) : g[i] = g[j] => i = j}

\* A file system whose walk returns g: each file imports the one before it.
ChainOf(g) == {ImportStmt(g[i + 1], g[i], "from") : i \in 1..(Len(g) - 1)}

\* Line 662: path.relative(entryDir, absPath).
relative(loc) ==
  CASE loc = "entryDir" -> "."
    [] loc = "subDir" -> "lib"
    [] loc = "parentDir" -> ".."

\* Line 663: path.join(tempDir, rel) with the extension replaced; ".."
\* leads out of tempDir into os.tmpdir().
join(rel, name) ==
  [dir |-> CASE rel = "." -> "tempDir"
             [] rel = "lib" -> "tempDir/lib"
             [] rel = ".." -> "tmpdir",
   name |-> name]

outPath(f) == join(relative(graphLoc[f]), f)

InsideTempDir(path) == path.dir \in {"tempDir", "tempDir/lib"}

\* Line 653, graph = resolveDsDependencyGraph(inFile), has returned.
InitRun ==
  /\ InitCompilerIdle
  /\ NoTools
  /\ order \in Graphs
  /\ fileImports = ChainOf(order)
  /\ seen = {order[i] : i \in 1..Len(order)}
  /\ visitStack = << >>
  /\ cliPc = "resolved"
  /\ graphLoc \in {loc \in [DsFiles -> Locations] :
                     \A f \in DsFiles : f \notin seen \/ f = "entry"
                                          => loc[f] = "entryDir"}
  /\ tempDir = "none"
  /\ written = {}
  /\ compiled = 0
  /\ child = "none"
  /\ exiting = FALSE
  /\ sigListeners = {}
  /\ exitCode = "none"

\* Lines 655-659: mkdtempSync and the package.json inside.
MakeTempDir ==
  /\ cliPc = "resolved"
  /\ tempDir' = "exists"
  /\ written' = written \cup {join(".", "package.json")}
  /\ cliPc' = "compile"
  /\ UNCHANGED << graphVars, graphLoc, compiled, child, exiting, sigListeners,
                  exitCode, compilerVars, toolVars >>

\* Lines 661-686, transpileSpark returns no diagnostic: the code is written
\* to outPath.
CompileWrites ==
  /\ cliPc = "compile"
  /\ compiled < Len(order)
  /\ written' = written \cup {outPath(order[compiled + 1])}
  /\ compiled' = compiled + 1
  /\ UNCHANGED << graphVars, cliPc, graphLoc, tempDir, child, exiting,
                  sigListeners, exitCode, compilerVars, toolVars >>

\* Lines 668-677 and 721-727, transpileSpark returns diagnostics: the Error
\* thrown in the loop is caught by the outer handler, which prints and
\* calls process.exit(1); tempDir is not in its scope.
CompileFails ==
  /\ cliPc = "compile"
  /\ compiled < Len(order)
  /\ exitCode' = "1"
  /\ cliPc' = "exited"
  /\ UNCHANGED << graphVars, graphLoc, tempDir, written, compiled, child,
                  exiting, sigListeners, compilerVars, toolVars >>

\* Lines 689-695 and 718-719: the .mjs copy of the entry, spawn, the
\* listeners of SIGINT and SIGTERM.
SpawnChild ==
  /\ cliPc = "compile"
  /\ compiled = Len(order)
  /\ written' = written \cup {join(".", "entry.mjs")}
  /\ child' = "running"
  /\ sigListeners' = {"SIGINT", "SIGTERM"}
  /\ cliPc' = "spawned"
  /\ UNCHANGED << graphVars, graphLoc, tempDir, compiled, exiting, exitCode,
                  compilerVars, toolVars >>

\* Lines 698-704: rmSync(tempDir) and process.exit(code ?? 0).
onExit(code) ==
  /\ tempDir' = "removed"
  /\ exitCode' = IF code = "null" THEN "0" ELSE code
  /\ cliPc' = "exited"
  /\ UNCHANGED << graphVars, graphLoc, written, compiled, exiting,
                  sigListeners, compilerVars, toolVars >>

\* Line 706: the child exits, with a code or (null) by a signal.
ChildExit ==
  /\ cliPc = "spawned"
  /\ \E code \in {"0", "1", "null"} :
       /\ code = "null" => child = "signalled"
       /\ child' = "exited"
       /\ onExit(code)

\* Lines 707-710: the child could not be started.
ChildError ==
  /\ cliPc = "spawned"
  /\ child = "running"
  /\ child' = "failed"
  /\ onExit("1")

\* Lines 712-719: the first SIGINT or SIGTERM is forwarded to the child;
\* process.once has removed the listener that ran.
HandleSignal ==
  /\ cliPc = "spawned"
  /\ \E sig \in sigListeners :
       /\ sigListeners' = sigListeners \ {sig}
       /\ exiting' = TRUE
       /\ child' = IF exiting THEN child ELSE "signalled"
  /\ UNCHANGED << graphVars, cliPc, graphLoc, tempDir, written, compiled,
                  exitCode, compilerVars, toolVars >>

\* A signal whose listener has run already: nothing listens any more, the
\* process ends by the signal.
SignalUnheard ==
  /\ cliPc = "spawned"
  /\ \E sig \in {"SIGINT", "SIGTERM"} \ sigListeners : exitCode' = sig
  /\ cliPc' = "exited"
  /\ UNCHANGED << graphVars, graphLoc, tempDir, written, compiled, child,
                  exiting, sigListeners, compilerVars, toolVars >>

NextRun ==
  \/ MakeTempDir
  \/ CompileWrites
  \/ CompileFails
  \/ SpawnChild
  \/ ChildExit
  \/ ChildError
  \/ HandleSignal
  \/ SignalUnheard

SpecRun == InitRun /\ [][NextRun]_vars

\* C20: every path a single-file run writes lies inside the temporary
\* directory, and once the process has exited the directory is removed.
C20_NothingLeftBehind ==
  /\ \A path \in written : InsideTempDir(path)
  /\ cliPc = "exited" => tempDir = "removed"

\* The same for the runs in which every file lies in or below the entry's
\* directory, every file compiles and each signal comes once.
C20_RemovedAfterChild ==
  (cliPc = "exited" /\ exitCode \in {"0", "1"} /\ compiled = Len(order))
    => tempDir = "removed"

\* A file of the graph fails to compile: the process has exited with 1 and
\* the directory exists.
C20_LeftAfterCompileFailure ==
  cliPc = "exited" /\ exitCode = "1" /\ compiled < Len(order) /\ tempDir = "exists"

(***************************************************************************)
(* `dsc build`, src/unnamed/part_002 485-573: every collected file is      *)
(* compiled in turn inside its own try/catch.                              *)
(***************************************************************************)
MaxBuildFiles == 4

MaxDiags == 2

\* What transpileSpark does for one file: it throws a CompileError, or it
\* returns a result with a number of diagnostics.
Outcome(throws, diags) == [throws |-> throws, diags |-> diags]

Outcomes ==
  {Outcome(TRUE, 0)} \cup {Outcome(FALSE, n) : n \in 0..MaxDiags}

\* A test that lets every returned result through.
neverDiagnostics(res) == FALSE

\* Line 493: diags.length > 0.
hasDiagnostics(res) == res.diags > 0

FailedEntry(file) == [inPath |-> file]

RECURSIVE Repeat(_, _)
Repeat(x, n) == IF n = 0 THEN << >> ELSE << x >> \o Repeat(x, n - 1)

otherThanBuild == << compilerVars, cliVars, watchVars, cfgVars, lspVars >>

\* Lines 474-484: the files are collected, compiled and failed are empty.
InitBuild ==
  /\ InitCompilerIdle
  /\ NoCli
  /\ NoWatch
  /\ NoCfg
  /\ NoLsp
  /\ buildFiles = << >>
  /\ nFiles \in 0..MaxBuildFiles
  /\ compiledFiles = << >>
  /\ failed = << >>
  /\ outputs = {}
  /\ processExitCode = 0
  /\ buildPc = "loop"

NextFile == Len(buildFiles) + 1

InBuildLoop == buildPc = "loop" /\ Len(buildFiles) < nFiles

\* Lines 524-537: transpileSpark (or a read) throws; the catch records the
\* file in failed and the loop goes on.
BuildThrows ==
  /\ InBuildLoop
  /\ buildFiles' = Append(buildFiles, Outcome(TRUE, 0))
  /\ failed' = Append(failed, FailedEntry(NextFile))
  /\ UNCHANGED << nFiles, compiledFiles, outputs, processExitCode, buildPc,
                  otherThanBuild >>

\* Lines 493-500: the result has diagnostics; each is pushed onto failed,
\* and `continue` skips the write.
BuildDiagnostics ==
  /\ InBuildLoop
  /\ \E res \in Outcomes :
       /\ ~ res.throws
       /\ hasDiagnostics(res)
       /\ buildFiles' = Append(buildFiles, res)
       /\ failed' = failed \o Repeat(FailedEntry(NextFile), res.diags)
  /\ UNCHANGED << nFiles, compiledFiles, outputs, processExitCode, buildPc,
                  otherThanBuild >>

\* Lines 501-523: the output is written and the file is pushed onto
\* compiled.
BuildWrites ==
  /\ InBuildLoop
  /\ \E res \in Outcomes :
       /\ ~ res.throws
       /\ ~ hasDiagnostics(res)
       /\ buildFiles' = Append(buildFiles, res)
  /\ outputs' = outputs \cup {NextFile}
  /\ compiledFiles' = Append(compiledFiles, NextFile)
  /\ UNCHANGED << nFiles, failed, processExitCode, buildPc, otherThanBuild >>

\* Lines 540-573: the summary; process.exitCode = 1 when failed is not
\* empty.
BuildSummary ==
  /\ buildPc = "loop"
  /\ Len(buildFiles) = nFiles
  /\ processExitCode' = IF Len(failed) > 0 THEN 1 ELSE processExitCode
  /\ buildPc' = "done"
  /\ UNCHANGED << buildFiles, nFiles, compiledFiles, failed, outputs,
                  otherThanBuild >>

NextBuild ==
  \/ BuildThrows
  \/ BuildDiagnostics
  \/ BuildWrites
  \/ BuildSummary

SpecBuild == InitBuild /\ [][NextBuild]_vars

\* transpileSpark threw for the file, or returned diagnostics.
FileFailed(i) == buildFiles[i].throws \/ buildFiles[i].diags > 0

\* C21: when build has finished every collected file was attempted, the
\* exit code is non-zero exactly when a file had a diagnostic or a thrown
\* error, and the outputs written are those of the files that compiled
\* with zero diagnostics.
C21_BuildAttemptsAll ==
  buildPc = "done" =>
    /\ Len(buildFiles) = nFiles
    /\ processExitCode # 0 <=> \E i \in 1..nFiles : FileFailed(i)
    /\ outputs = {i \in 1..nFiles : ~ FileFailed(i)}

\* A build in which the first file threw, the second had diagnostics and
\* the third was written.
C21_FailuresThenOutput ==
  /\ buildPc = "done"
  /\ nFiles >= 3
  /\ buildFiles[1].throws
  /\ buildFiles[2].diags > 0
  /\ 3 \in outputs

(***************************************************************************)
(* `dsc dev`, src/unnamed/part_002 615-636: each change event of a source  *)
(* sets a timeout of 120 ms for its path, clearing the one pending; the    *)
(* timeout calls transpileFile (src/src/transpiler.ts 2143-2171).          *)
(***************************************************************************)
DebounceMs == 120

\* The time is counted in ticks of half the delay.
TickMs == DebounceMs \div 2

MaxTime == 5

MaxEvents == 4

DebounceTicks == DebounceMs \div TickMs

\* A clearTimeout that clears nothing.
keepTimeout(pending, timer) == pending

\* Line 624: clearTimeout(timers.get(inPath)).
clearTimeout(pending, timer) == pending \ {timer}

\* The timeouts whose delay has passed; the event loop runs them before it
\* delivers further events.
Due == {t \in pendingTimers : t.deadline <= now}

otherThanWatch == << compilerVars, cliVars, buildVars, cfgVars, lspVars >>

InitWatch ==
  /\ InitCompilerIdle
  /\ NoCli
  /\ NoBuild
  /\ NoCfg
  /\ NoLsp
  /\ NoWatch

\* The events delivered so far.
Delivered ==
  LET paths == WatchedPaths \cup IgnoredPaths
      RECURSIVE Sum(_)
      Sum(S) == IF S = {} THEN 0
                ELSE LET x == CHOOSE x \in S : TRUE
                     IN Len(eventLog[x]) + Sum(S \ {x})
  IN Sum(paths)

\* Lines 619-621: an event without a source file name returns at once.
IgnoredEvent ==
  /\ Due = {}
  /\ Delivered < MaxEvents
  /\ \E filename \in IgnoredPaths :
       eventLog' = [eventLog EXCEPT ![filename] = Append(@, now)]
  /\ UNCHANGED << now, pendingTimers, timers, recompileLog, otherThanWatch >>

\* Lines 622-634: the pending timeout of the path is cleared, a new one is
\* set and stored; a timeout is identified by the event that set it.
ChangeEvent ==
  /\ Due = {}
  /\ Delivered < MaxEvents
  /\ \E filename \in WatchedPaths :
       LET t == Timeout(Len(eventLog[filename]) + 1, filename, now + DebounceTicks)
       IN /\ eventLog' = [eventLog EXCEPT ![filename] = Append(@, now)]
          /\ pendingTimers' =
               (IF timers[filename] # NoTimeout
                  THEN clearTimeout(pendingTimers, timers[filename])
                  ELSE pendingTimers)
                 \cup {t}
          /\ timers' = [timers EXCEPT ![filename] = t]
  /\ UNCHANGED << now, recompileLog, otherThanWatch >>

\* What transpileFile meets: readFileSync throws (2144, outside its try),
\* transpileSpark throws, returns diagnostics, or returns none.
FileOutcomes == {"unreadable", "throws", "diagnostics", "clean"}

\* transpileFile, lines 2143-2171, by what it prints; TRUE when it throws
\* to its caller.
transpileFileThrows(outcome) == outcome = "unreadable"

transpileFilePrints(outcome) ==
  CASE outcome = "unreadable" -> << >>
    [] outcome = "throws" -> << "Compile error" >>
    [] outcome = "diagnostics" -> << "Compile errors", "Compiled" >>
    [] outcome = "clean" -> << "Compiled" >>

\* Lines 627-632: the try/catch around transpileFile in the timeout.
recompilePrints(outcome) ==
  IF transpileFileThrows(outcome)
    THEN transpileFilePrints(outcome) \o << "Error compiling" >>
    ELSE transpileFilePrints(outcome) \o << "Recompiled" >>

\* Lines 625-633: a timeout runs: it deletes the entry of its path and
\* recompiles.
TimerFires ==
  /\ \E t \in Due : \E outcome \in FileOutcomes :
       /\ pendingTimers' = pendingTimers \ {t}
       /\ timers' = [timers EXCEPT ![t.path] = NoTimeout]
       /\ recompileLog' = [recompileLog EXCEPT ![t.path] = Append(@,
            [time |-> now, outcome |-> outcome,
             prints |-> recompilePrints(outcome)])]
  /\ UNCHANGED << now, eventLog, otherThanWatch >>

\* Time passes while no timeout is due.
Tick ==
  /\ Due = {}
  /\ now < MaxTime
  /\ now' = now + 1
  /\ UNCHANGED << pendingTimers, timers, eventLog, recompileLog,
                  otherThanWatch >>

NextWatch ==
  \/ IgnoredEvent
  \/ ChangeEvent
  \/ TimerFires
  \/ Tick

SpecWatch == InitWatch /\ [][NextWatch]_vars

\* The times of the events of a path, in order.
EventTimes(path) == eventLog[path]

\* The bursts of a path: an event less than the delay after the one before
\* it belongs to the same burst.
Bursts(path) ==
  LET ts == EventTimes(path)
  IN IF ts = << >> THEN 0
     ELSE 1 + Cardinality({i \in 1..(Len(ts) - 1) :
                             ts[i + 1] - ts[i] >= DebounceTicks})

Recompiles(path) == recompileLog[path]

PendingFor(path) == {t \in pendingTimers : t.path = path}

\* C22: at most one timeout is pending per path; each burst of events of a
\* path is followed by exactly one recompilation of that path, which runs
\* the delay after the last event of the burst, whatever happens on other
\* paths.
C22_OneRecompilePerBurst ==
  \A path \in WatchedPaths :
    LET ts == EventTimes(path)
        rs == Recompiles(path)
    IN /\ Cardinality(PendingFor(path)) <= 1
       /\ Len(rs) + Cardinality(PendingFor(path)) = Bursts(path)
       /\ \A i \in 1..Len(rs) :
            /\ \E j \in 1..Len(ts) : ts[j] + DebounceTicks = rs[i].time
            /\ \A j \in 1..Len(ts) :
                 ts[j] + DebounceTicks <= rs[i].time \/ ts[j] >= rs[i].time

\* Three events of a.ds in one burst with an event of b.ds in between;
\* both paths have been recompiled, a.ds once.
C22_BurstAcrossPaths ==
  /\ Len(EventTimes("a.ds")) = 3
  /\ Bursts("a.ds") = 1
  /\ EventTimes("a.ds")[3] > EventTimes("a.ds")[1]
  /\ EventTimes("b.ds") = << EventTimes("a.ds")[2] >>
  /\ Len(Recompiles("a.ds")) = 1
  /\ Len(Recompiles("b.ds")) = 1
  /\ pendingTimers = {}

\* The recompilations of all paths.
AllRecompiles ==
  UNION {{recompileLog[path][i] : i \in 1..Len(recompileLog[path])} :
           path \in WatchedPaths}

Printed(r, message) == \E k \in 1..Len(r.prints) : r.prints[k] = message

IsSuccessMessage(message) == message \in {"Compiled", "Recompiled"}

IsErrorReport(message) ==
  message \in {"Compile error", "Compile errors", "Error compiling"}

\* C29: each recompilation prints a success message exactly when the file
\* compiled with no diagnostic and no thrown error, and otherwise an
\* error report and no success message.
C29_OneOutcomeReported ==
  \A r \in AllRecompiles :
    IF r.outcome = "clean"
      THEN \A k \in 1..Len(r.prints) : IsSuccessMessage(r.prints[k])
      ELSE /\ \E k \in 1..Len(r.prints) : IsErrorReport(r.prints[k])
           /\ \A k \in 1..Len(r.prints) : ~ IsSuccessMessage(r.prints[k])

\* The part that holds: a recompilation of a file without diagnostics
\* prints success messages only, and any other prints an error report.
C29_ErrorAlwaysReported ==
  \A r \in AllRecompiles :
    IF r.outcome = "clean"
      THEN \A k \in 1..Len(r.prints) : IsSuccessMessage(r.prints[k])
      ELSE \E k \in 1..Len(r.prints) : IsErrorReport(r.prints[k])

(***************************************************************************)
(* The configuration file: loadConfig (src/src/config.ts 14-37) and        *)
(* `dsc init` (src/unnamed/part_002 442-466).                              *)
(***************************************************************************)
MaxCommands == 3

\* The texts of the model:
\*   "template"       the text init writes (449-456)
\*   "esmOnly"        export default { module: 'esm' }
\*   "builtinsOff"    export default { module: 'esm', builtins: false };
\*   "trailingComma"  export default { module: 'esm', }
\*   "null"           export default null
\*   "empty"          the empty file
ConfigTexts ==
  {"template", "esmOnly", "builtinsOff", "trailingComma", "null", "empty"}

\* A config object; builtins is "undefined" when the key is missing.
Config(module, builtins) == [module |-> module, builtins |-> builtins]

DefaultConfig == Config("cjs", "true")

\* No object: what JSON.parse makes of `null`, and the value of a call
\* that returned nothing.
NoConfig == Config("none", "none")

\* Lines 22-29: the text with `export default` and the closing semicolon
\* removed, keys and strings quoted, handed to JSON.parse. TRUE when
\* JSON.parse returns.
jsonParses(text) == text \in {"template", "esmOnly", "builtinsOff", "null"}

\* The value JSON.parse returns: an object, or null.
jsonValue(text) ==
  CASE text = "template" -> Config("cjs", "true")
    [] text = "esmOnly" -> Config("esm", "undefined")
    [] text = "builtinsOff" -> Config("esm", "false")
    [] text = "null" -> NoConfig

\* What a call returns or throws, and what it printed.
Returned(value, reported) ==
  [thrown |-> FALSE, value |-> value, reported |-> reported]

Thrown == [thrown |-> TRUE, value |-> NoConfig, reported |-> ""]

\* A test that finds no file.
neverExists(file) == FALSE

\* fs.existsSync(configPath).
existsSync(file) == file.exists

\* loadConfig, lines 14-37.
loadConfig(file) ==
  IF ~ existsSync(file) THEN Returned(DefaultConfig, "warning")
  ELSE IF ~ file.readable THEN Thrown
  ELSE IF ~ jsonParses(file.text) THEN Returned(DefaultConfig, "error")
  ELSE IF jsonValue(file.text) = NoConfig THEN Returned(DefaultConfig, "error")
  ELSE IF jsonValue(file.text).builtins = "undefined"
    THEN Returned([jsonValue(file.text) EXCEPT !.builtins = "true"], "")
  ELSE Returned(jsonValue(file.text), "")

LogEntry(op, before, after, result) ==
  [op |-> op, before |-> before, after |-> after, result |-> result]

otherThanCfg == << compilerVars, cliVars, buildVars, watchVars, lspVars >>

InitConfig ==
  /\ InitCompilerIdle
  /\ NoCli
  /\ NoBuild
  /\ NoWatch
  /\ NoLsp
  /\ NoCfg

CanRun == Len(cfgLog) < MaxCommands

\* Lines 443-447: the file exists; a warning, exit code 0.
InitWarns ==
  /\ CanRun
  /\ existsSync(configFile)
  /\ cfgLog' = Append(cfgLog, LogEntry("init", configFile, configFile, Returned(NoConfig, "warning")))
  /\ UNCHANGED << configFile, srcDir, otherThanCfg >>

\* Lines 449-465: the template is written and src/ is created.
InitCreates ==
  /\ CanRun
  /\ ~ existsSync(configFile)
  /\ configFile' = File(TRUE, TRUE, "template")
  /\ srcDir' = TRUE
  /\ cfgLog' = Append(cfgLog,
       LogEntry("init", configFile, File(TRUE, TRUE, "template"),
                Returned(NoConfig, "created")))
  /\ UNCHANGED otherThanCfg

\* build, dev or a single-file run calls loadConfig (part_002 470, 642).
LoadConfig ==
  /\ CanRun
  /\ cfgLog' = Append(cfgLog,
       LogEntry("load", configFile, configFile, loadConfig(configFile)))
  /\ UNCHANGED << configFile, srcDir, otherThanCfg >>

\* The user saves a text as dsk.config.ds.
UserWrites ==
  /\ CanRun
  /\ \E text \in ConfigTexts :
       /\ File(TRUE, TRUE, text) # configFile
       /\ configFile' = File(TRUE, TRUE, text)
       /\ cfgLog' = Append(cfgLog,
            LogEntry("user", configFile, File(TRUE, TRUE, text),
                     Returned(NoConfig, "")))
  /\ UNCHANGED << srcDir, otherThanCfg >>

\* The user removes the file, or leaves an entry that cannot be read.
UserRemoves ==
  /\ CanRun
  /\ \E file \in {Absent, Unreadable} :
       /\ file # configFile
       /\ configFile' = file
       /\ cfgLog' = Append(cfgLog, LogEntry("user", configFile, file, Returned(NoConfig, "")))
  /\ UNCHANGED << srcDir, otherThanCfg >>

NextConfig ==
  \/ InitWarns
  \/ InitCreates
  \/ LoadConfig
  \/ UserWrites
  \/ UserRemoves

SpecConfig == InitConfig /\ [][NextConfig]_vars

Entries(op) == {cfgLog[i] : i \in {j \in 1..Len(cfgLog) : cfgLog[j].op = op}}

\* The file holds an object literal that JSON.parse accepts.
ParsesAsObject(file) ==
  /\ file.exists
  /\ file.readable
  /\ jsonParses(file.text)
  /\ jsonValue(file.text) # NoConfig

\* C23: loadConfig never throws; it returns the default when the file is
\* absent, reports and returns the default when the file exists and cannot
\* be read or parsed as an object literal, and returns builtins = TRUE when
\* the parsed object has no builtins.
C23_LoadConfigNeverThrows ==
  \A e \in Entries("load") :
    /\ ~ e.result.thrown
    /\ ~ e.before.exists => e.result.value = DefaultConfig
    /\ (e.before.exists /\ ~ ParsesAsObject(e.before))
         => e.result.value = DefaultConfig /\ e.result.reported = "error"
    /\ (ParsesAsObject(e.before) /\ jsonValue(e.before.text).builtins = "undefined")
         => e.result.value.builtins = "true"

\* The same for the files that can be read.
C23_ReadableNeverThrows ==
  \A e \in Entries("load") :
    (e.before.exists => e.before.readable) =>
      /\ ~ e.result.thrown
      /\ ~ e.before.exists => e.result.value = DefaultConfig
      /\ (e.before.exists /\ ~ ParsesAsObject(e.before))
           => e.result.value = DefaultConfig /\ e.result.reported = "error"
      /\ (ParsesAsObject(e.before) /\ jsonValue(e.before.text).builtins = "undefined")
           => e.result.value.builtins = "true"

\* C24: a run of init that finds the config file leaves it as it was and
\* reports a warning.
C24_InitNeverOverwrites ==
  \A e \in Entries("init") :
    e.before.exists => e.after = e.before /\ e.result.reported = "warning"

\* init has created the file, the user has changed it, init has run again
\* and the user's text is in place.
C24_InitTwice ==
  /\ Len(cfgLog) = 3
  /\ cfgLog[1].op = "init" /\ cfgLog[1].result.reported = "created"
  /\ cfgLog[2].op = "user" /\ cfgLog[2].after.text = "builtinsOff"
  /\ cfgLog[3].op = "init"
  /\ configFile = File(TRUE, TRUE, "builtinsOff")

(***************************************************************************)
(* The language server (src/unnamed/part_000): the handlers of the         *)
(* document events and of the requests, the symbol index and the           *)
(* diagnostics sent.  A handler runs until it has to wait for the          *)
(* transpiler module; the handlers that wait resume in the order in which  *)
(* they began to wait.                                                     *)
(***************************************************************************)
MaxTexts == 2

MaxWaiting == 2

\* The texts a document can have.
Texts == 1..MaxTexts

\* The text of each workspace file on disk.
DiskText(fp) == 1

\* The names buildSymbolIndex finds in the texts, letter by letter.
SymbolNames ==
  << << "m", "a", "i", "n" >>,
     << "F", "o", "o" >>,
     << "f", "o", "o", "B", "a", "r" >> >>

\* buildSymbolIndex: the names declared in a text.
SymbolsOf(text) ==
  { SymbolNames[1], SymbolNames[((text - 1) % (Len(SymbolNames) - 1)) + 2] }

\* String.prototype.toLowerCase.
toLowerCase(s) ==
  [i \in 1..Len(s) |->
     CASE s[i] = "F" -> "f"
       [] s[i] = "B" -> "b"
       [] s[i] = "O" -> "o"
       [] s[i] = "A" -> "a"
       [] s[i] = "R" -> "r"
       [] OTHER -> s[i]]

\* String.prototype.includes.
includes(s, q) ==
  \E i \in 0..(Len(s) - Len(q)) : SubSeq(s, i + 1, i + Len(q)) = q

\* The queries of workspace/symbol.
Queries ==
  { << >>, << "f", "o", "o" >>, << "F", "O" >>, << "b", "a", "r" >>, << "z" >> }

\* Line 922: !query || s.name.toLowerCase().includes(query), query being
\* the lower-case form of params.query (line 917).
Matches(name, paramsQuery) ==
  LET query == toLowerCase(paramsQuery)
  IN  query = << >> \/ includes(toLowerCase(name), query)

\* documents.get(uri): the text of an open document, NoText otherwise.
OpenUris == { documents[i].uri : i \in 1..Len(documents) }

textOf(docs, uri) ==
  IF \E i \in 1..Len(docs) : docs[i].uri = uri
  THEN docs[CHOOSE i \in 1..Len(docs) : docs[i].uri = uri].text
  ELSE NoText

\* A handler suspended in ensureTranspilerLoaded: the handler of a document
\* event ("document"), of the watched files ("watched") or a reload
\* ("reload"); uris: the documents it still has to validate; text: the text
\* validateTextDocument read (line 109) before it began to wait.
Handler(kind, uris, text) == [kind |-> kind, uris |-> uris, text |-> text]

allUris(docs) == [i \in 1..Len(docs) |-> docs[i].uri]

\* sendDiagnostics for each of uris, validated on the texts of docs, and
\* for the first of them on `first` when it is a text.
sendAll(pub, uris, docs, first) ==
  [u \in Uris |->
     IF \E i \in 1..Len(uris) : uris[i] = u
     THEN IF uris[1] = u /\ first # NoText THEN first ELSE textOf(docs, u)
     ELSE pub[u]]

\* What a suspended handler does when it resumes.  Lines 351-361: the
\* diagnostics of the text read before the wait, the index entry of the
\* text the document has now.  Lines 366-372, 379-384: the diagnostics of
\* each document.
resumePublished(h, pub, docs) == sendAll(pub, h.uris, docs, h.text)

resumeIndex(h, idx, docs) ==
  IF h.kind = "document"
  THEN [idx EXCEPT ![h.uris[1]] = textOf(docs, h.uris[1])]
  ELSE idx

\* The handlers of hs resume one after the other.
RECURSIVE drainPublished(_, _, _)
drainPublished(hs, pub, docs) ==
  IF hs = << >> THEN pub
  ELSE drainPublished(Tail(hs), resumePublished(Head(hs), pub, docs), docs)

RECURSIVE drainIndex(_, _, _)
drainIndex(hs, idx, docs) ==
  IF hs = << >> THEN idx
  ELSE drainIndex(Tail(hs), resumeIndex(Head(hs), idx, docs), docs)

\* scanWorkspace (407-421): the entry of each .ds file of the workspace is
\* built from its text on disk.
scanWorkspace(idx) ==
  [u \in Uris |->
     IF \E fp \in WorkspaceFiles : uriOf(fp) = u
     THEN DiskText(CHOOSE fp \in WorkspaceFiles : uriOf(fp) = u)
     ELSE idx[u]]

\* onWorkspaceSymbol (916-929): the matching symbols of the documents of
\* documents.all() that have an entry.
onWorkspaceSymbol(docs, idx, paramsQuery) ==
  { << u, name >> \in Uris \X UNION { SymbolsOf(t) : t \in Texts } :
      /\ \E i \in 1..Len(docs) : docs[i].uri = u
      /\ idx[u] # NoText
      /\ name \in SymbolsOf(idx[u])
      /\ Matches(name, paramsQuery) }

otherThanLsp == << compilerVars, cliVars, buildVars, watchVars, cfgVars >>

\* The server has answered initialize; nothing is open or indexed.
InitLsp ==
  /\ InitCompilerIdle
  /\ NoCli
  /\ NoBuild
  /\ NoWatch
  /\ NoCfg
  /\ lspPc = "started"
  /\ documents = << >>
  /\ transpile = FALSE
  /\ waiting = << >>
  /\ published = [u \in Uris |-> NoText]
  /\ symbolIndex = [u \in Uris |-> NoText]
  /\ wsQuery = << >>
  /\ wsResult = {}
  /\ wsSeq = 0

\* onInitialized (390-403): the transpiler is loaded again and every open
\* document validated after it; scanWorkspace runs at once.
Initialized ==
  /\ lspPc = "started"
  /\ lspPc' = "initialized"
  /\ transpile' = FALSE
  /\ waiting' = Append(waiting, Handler("reload", << >>, NoText))
  /\ symbolIndex' = scanWorkspace(symbolIndex)
  /\ UNCHANGED << documents, published, wsQuery, wsResult, wsSeq, otherThanLsp >>

\* The handler of a document event on newDocs (351-361).  With the
\* transpiler loaded it runs to its end; otherwise it waits.
documentHandler(uri, newDocs) ==
  LET h == Handler("document", << uri >>, textOf(newDocs, uri))
  IN  /\ documents' = newDocs
      /\ IF transpile
         THEN /\ published' = resumePublished(h, published, newDocs)
              /\ symbolIndex' = resumeIndex(h, symbolIndex, newDocs)
              /\ UNCHANGED waiting
         ELSE /\ Len(waiting) < MaxWaiting
              /\ waiting' = Append(waiting, h)
              /\ UNCHANGED << published, symbolIndex >>
      /\ UNCHANGED << lspPc, transpile, wsQuery, wsResult, wsSeq, otherThanLsp >>

\* textDocument/didOpen: onDidOpen (357-361).
DidOpen ==
  /\ lspPc = "initialized"
  /\ \E uri \in Uris \ OpenUris, text \in Texts :
       documentHandler(uri, Append(documents, [uri |-> uri, text |-> text]))

\* textDocument/didChange: onDidChangeContent (351-355).
DidChange ==
  /\ lspPc = "initialized"
  /\ \E i \in 1..Len(documents), text \in Texts :
       /\ text # documents[i].text
       /\ documentHandler(documents[i].uri,
                          [documents EXCEPT ![i].text = text])

\* workspace/didChangeWatchedFiles (379-384): every open document is
\* validated and its diagnostics sent.
DidChangeWatchedFiles ==
  /\ lspPc = "initialized"
  /\ documents # << >>
  /\ LET h == Handler("watched", allUris(documents), documents[1].text)
     IN  IF transpile
         THEN /\ published' = resumePublished(h, published, documents)
              /\ UNCHANGED waiting
         ELSE /\ Len(waiting) < MaxWaiting
              /\ waiting' = Append(waiting, h)
              /\ UNCHANGED published
  /\ UNCHANGED << lspPc, documents, transpile, symbolIndex, wsQuery, wsResult,
                  wsSeq, otherThanLsp >>

\* deltascript/reloadTranspiler (364-377): transpile = null, then the
\* module is loaded and every open document validated.
ReloadTranspiler ==
  /\ lspPc = "initialized"
  /\ Len(waiting) < MaxWaiting
  /\ transpile' = FALSE
  /\ waiting' = Append(waiting, Handler("reload", << >>, NoText))
  /\ UNCHANGED << lspPc, documents, published, symbolIndex, wsQuery, wsResult,
                  wsSeq, otherThanLsp >>

\* A handler of kind "reload" validates the documents open when it resumes.
resumed(h, docs) ==
  IF h.kind = "reload" THEN Handler("reload", allUris(docs), NoText) ELSE h

RECURSIVE resumedAll(_, _)
resumedAll(hs, docs) ==
  IF hs = << >> THEN << >>
  ELSE << resumed(Head(hs), docs) >> \o resumedAll(Tail(hs), docs)

\* Lines 26-32: the import of transpiler.js completes; transpile is set and
\* the handlers that waited for it resume in their order.
ImportLoads ==
  /\ waiting # << >>
  /\ transpile' = TRUE
  /\ published' = drainPublished(resumedAll(waiting, documents), published, documents)
  /\ symbolIndex' = drainIndex(waiting, symbolIndex, documents)
  /\ waiting' = << >>
  /\ UNCHANGED << lspPc, documents, wsQuery, wsResult, wsSeq, otherThanLsp >>

\* Lines 33-38: the import fails or times out for the handler that waited
\* longest; it goes on without an engine (113-116).
ImportFails ==
  /\ waiting # << >>
  /\ ~ transpile
  /\ published' = resumePublished(resumed(Head(waiting), documents), published, documents)
  /\ symbolIndex' = resumeIndex(Head(waiting), symbolIndex, documents)
  /\ waiting' = Tail(waiting)
  /\ UNCHANGED << lspPc, documents, transpile, wsQuery, wsResult, wsSeq, otherThanLsp >>

\* deltascript/reindex (441-444).
Reindex ==
  /\ lspPc = "initialized"
  /\ symbolIndex' = scanWorkspace(symbolIndex)
  /\ UNCHANGED << lspPc, documents, transpile, waiting, published, wsQuery,
                  wsResult, wsSeq, otherThanLsp >>

\* workspace/symbol (916-929).
WorkspaceSymbol ==
  /\ lspPc = "initialized"
  /\ \E q \in Queries :
       /\ wsQuery' = q
       /\ wsResult' = onWorkspaceSymbol(documents, symbolIndex, q)
  /\ wsSeq' = 1 - wsSeq
  /\ UNCHANGED << lspPc, documents, transpile, waiting, published, symbolIndex,
                  otherThanLsp >>

NextLsp ==
  \/ Initialized
  \/ DidOpen
  \/ DidChange
  \/ DidChangeWatchedFiles
  \/ ReloadTranspiler
  \/ ImportLoads
  \/ ImportFails
  \/ Reindex
  \/ WorkspaceSymbol

SpecLsp == InitLsp /\ [][NextLsp]_vars

\* The symbols the claim expects of workspace/symbol: the matching symbols
\* of every uri with an entry of symbolIndex, open or not.
IndexedSymbols(idx, paramsQuery) ==
  { << u, name >> \in Uris \X UNION { SymbolsOf(t) : t \in Texts } :
      /\ idx[u] # NoText
      /\ name \in SymbolsOf(idx[u])
      /\ Matches(name, paramsQuery) }

\* C25: a workspace/symbol request returns exactly the matching symbols of
\* every document that has an entry in the symbol index, the files indexed
\* by the workspace scan and never opened included; the match is a
\* case-insensitive "contains" and the empty query matches every symbol.
C25_WorkspaceSymbolsOverIndex ==
  [][wsSeq' # wsSeq => wsResult' = IndexedSymbols(symbolIndex, wsQuery')]_vars

\* What the handler does: the same over the open documents only.
C25_WorkspaceSymbolsOverOpen ==
  [][wsSeq' # wsSeq =>
       wsResult' = { s \in IndexedSymbols(symbolIndex, wsQuery') :
                       s[1] \in OpenUris }]_vars

\* No handler is suspended.
Quiescent == lspPc = "initialized" /\ waiting = << >>

\* C30: once every handler in flight has completed, the diagnostics last
\* published for each open document and its entry of the symbol index are
\* those of the text most recently received for it.
C30_LatestTextWhenQuiescent ==
  Quiescent =>
    \A i \in 1..Len(documents) :
      /\ published[documents[i].uri] = documents[i].text
      /\ symbolIndex[documents[i].uri] = documents[i].text

\* The part of C30 about the diagnostics.
C30_LatestDiagnostics ==
  Quiescent =>
    \A i \in 1..Len(documents) :
      published[documents[i].uri] = documents[i].text

(***************************************************************************)
(* Returns at any depth, the depth of the scope stack, and the lines that  *)
(* are no declaration and no assignment.                                   *)
(***************************************************************************)
\* Line i declares a function with a non-void return type whose body, on
\* the header's line or between the header and its closing brace, holds a
\* return of that function at some depth.
ReturningFunction(i) ==
  /\ src[i].k \in {"funcReturn1", "funcOpen"}
  /\ funcs[src[i].name].returnType \notin {null, "void"}
  /\ src[i].k = "funcOpen" =>
       /\ BodyEnd(i) # 0
       /\ \E j \in (i + 1)..(BodyEnd(i) - 1) :
            IsReturnLine(src[j]) /\ EnclosingFunction(j) = src[i].name

\* C26: a function that declares a non-void return type and whose body
\* holds at least one return, at any nesting depth, gets no missing-return
\* diagnostic.
C26_NoMissingReturnWhenReturning ==
  pc = "done" =>
    \A i \in 1..Len(src) :
       ReturningFunction(i) =>
         DiagsOfKindFor("missingReturn", src[i].name) = {}

\* The same for the functions whose returns all stand directly in the body,
\* with no block opened before them.
ReturnsAtTopOfBody(i) ==
  /\ ReturningFunction(i)
  /\ src[i].k = "funcOpen" =>
       /\ \A j \in (i + 1)..(BodyEnd(i) - 1) :
            src[j].k \in {"return", "let", "const"}
       /\ Len(TextUpTo(i - 1)) = 1

C26_NoMissingReturnAtTopOfBody ==
  pc = "done" =>
    \A i \in 1..Len(src) :
       ReturnsAtTopOfBody(i) =>
         DiagsOfKindFor("missingReturn", src[i].name) = {}

\* C27: while the pass runs over a brace-balanced file, the depth of the
\* scope stack after each line is the number of function, class and control
\* blocks textually open there (the global scope apart), blocks closed on
\* the line of other code included; after the last line only the global
\* scope remains and the function-context stack is empty.
C27_DepthMatchesText ==
  /\ Len(scopeStack) = Len(textStack)
  /\ pc = "done" => (Len(scopeStack) = 1 /\ funcContextStack = << >>)

\* The end of C27 alone: the state after the last line of a balanced file.
C27_OnlyGlobalAtEnd ==
  pc = "done" => (Len(scopeStack) = 1 /\ funcContextStack = << >>)

\* The same for the files whose blocks open at the end of a header line
\* and close on a line that holds a closing brace and nothing else.
C27_DepthOfPlainBlocks ==
  (\A i \in 1..Len(src) :
      src[i].k \notin {"ifReturn1", "funcReturn1", "funcLet1", "closeElse"})
    => C27_DepthMatchesText

\* The last line read is a plain call statement or a control-flow header:
\* neither a declaration nor an assignment.
LastLineIsCallOrHeader ==
  /\ Len(src') = Len(src) + 1
  /\ src'[Len(src')].k \in {"plainCall", "ifOpen"}

\* C28: a line that is neither a declaration nor an assignment, such as a
\* plain call F(x) or a control-flow header if (x) {, leaves every visible
\* identifier resolving to the same binding, with the same declared kind,
\* declared type and immutability marker, also inside the opened block.
C28_BindingsUnaltered ==
  [][LastLineIsCallOrHeader =>
       \A name \in VarNames :
          findVariable(scopeStack, name) # NoVar =>
            findVariable(scopeStack', name) = findVariable(scopeStack, name)]_vars

\* The same for the plain calls that end in a semicolon.
C28_CallWithSemicolonUnaltered ==
  [][(LastLineIsCallOrHeader /\ src'[Len(src')].k = "plainCall"
        /\ src'[Len(src')].semi) =>
       \A name \in VarNames :
          findVariable(scopeStack, name) # NoVar =>
            findVariable(scopeStack', name) = findVariable(scopeStack, name)]_vars

====
